---- MODULE Spec2Model ----
(***************************************************************************)
(* SimuladorSAG (src/apptest/simulador_sag.py): dynamic mass, water and     *)
(* copper balance of a SAG mill, stepped one minute at a time.             *)
(*                                                                         *)
(* The program computes in binary floating point; the model computes in    *)
(* fixed point on integers, every quantity in a fixed unit:                *)
(*   flows  F_*, W_* (t/h)            1 unit = 0.01 t/h                     *)
(*   masses M_sag, W_sag (t)          1 unit = 0.01 t                       *)
(*   copper mass M_cu_sag (t)         1 unit = 0.00001 t                    *)
(*   copper flows (t/h)               1 unit = 0.00001 t/h                  *)
(*   grades L_* (fraction)            1 unit = 0.00000001                   *)
(*   fractions, moistures, noise, H   1 unit = 0.000001 (ppm)               *)
(*   k_descarga (1/h)                 1 unit = 0.001 /h                     *)
(*   time t (h)                       counted in steps of dt = 1/60 h       *)
(*   delays tau_* (min)               1 unit = 0.1 min                      *)
(* A product or quotient is rounded once, to the nearest unit.             *)
(* The program's t is the float sum of n additions of 1/60.0; where the     *)
(* float value decides a comparison differently from the exact n/60 the     *)
(* model follows the float (EnArranque, VariacionFActiva, TruncaBajo, ...). *)
(***************************************************************************)
EXTENDS Integers, Sequences, FiniteSets, TLC

VARIABLES
    params,      \* self.params
    semilla,     \* self.semilla_aleatoria, the seed of the noise sequence
    sorteos,     \* number of np.random.normal draws since the seed was set
    estado,      \* self.estado (estado.t counts steps of dt)
    objetivos,   \* self.objetivos
    buffer_F,    \* self.buffer_F
    buffer_t,    \* self.buffer_t (times in steps of dt)
    historial,   \* self.historial
    ret,         \* outcome of the last call: what it returned or raised
    reloj,       \* paso_simulacion calls made so far, over all resets
    session_state \* st.session_state of the dashboard (app_streamlit.py)

vars == <<params, semilla, sorteos, estado, objetivos, buffer_F, buffer_t,
          historial, ret, reloj, session_state>>

\* The simulator object: every attribute the methods read or write.
sim == <<params, semilla, sorteos, estado, objetivos, buffer_F, buffer_t, historial>>

(***************************************************************************)
(* Bounds of the model.                                                    *)
(***************************************************************************)
\* paso_simulacion calls explored by Spec.
MaxPasos == 120

\* paso_simulacion calls explored by SpecLargo (20 h of simulated time).
MaxPasosLargo == 1200

(***************************************************************************)
(* Fixed-point arithmetic.                                                 *)
(***************************************************************************)
Ppm == 1000 * 1000

Abs(x) == IF x < 0 THEN -x ELSE x

Sgn(x) == IF x < 0 THEN -1 ELSE 1

Min(a, b) == IF a <= b THEN a ELSE b

Max(a, b) == IF a >= b THEN a ELSE b

\* a / b rounded to the nearest integer, halves away from zero.
RDiv(a, b) ==
    LET q == (2 * Abs(a) + Abs(b)) \div (2 * Abs(b))
    IN  Sgn(a) * Sgn(b) * q

\* <<quotient, remainder>> of r * b by c for 0 <= r < c, b >= 0, without an
\* intermediate above 200 * c (machine integers: c must stay below 10^7).
RECURSIVE QuoRem(_, _, _)
QuoRem(r, b, c) ==
    IF b < 100
    THEN <<(r * b) \div c, (r * b) % c>>
    ELSE LET p == QuoRem(r, b \div 100, c)
             s == 100 * p[2] + r * (b % 100)
         IN  <<100 * p[1] + s \div c, s % c>>

\* a * b / c rounded to the nearest integer, halves away from zero.
MulDiv(a, b, c) ==
    LET aa == Abs(a)
        bb == Abs(b)
        cc == Abs(c)
        p  == QuoRem(aa % cc, bb, cc)
        q  == (aa \div cc) * bb + p[1] + (IF 2 * p[2] >= cc THEN 1 ELSE 0)
    IN  Sgn(a) * Sgn(b) * Sgn(c) * q

\* np.clip(x, lo, hi) = minimum(maximum(x, lo), hi).
Clip(x, lo, hi) == Min(Max(x, lo), hi)

(***************************************************************************)
(* Constants of the program, in the model's units.                         *)
(***************************************************************************)
\* F_min = 500.0 t/h and F_max = 5000.0 t/h.
F_min == 50000

F_max == 500000

\* L_min = 0.003 and L_max = 0.015.
L_min == 300000

L_max == 1500000

\* Floors of the inventories: 10.0 t of solids, 1.0 t of water, 0.0 t of copper.
PisoM == 1000

PisoW == 100

PisoMcu == 0

\* A history record is kept when int(t / dt) % 6 == 0.
Decimacion == 6

\* max_puntos = 24 * 60.
max_puntos == 24 * 60

\* deque(maxlen=10000).
BufferMaxlen == 10000

\* The keys of self.historial.
ClavesHistorial ==
    {"t", "M_sag", "W_sag", "M_cu_sag", "F_chancado", "L_chancado", "F_finos",
     "F_sobre_tamano", "F_target", "L_target", "F_descarga", "L_sag", "H_sag"}

(***************************************************************************)
(* Parameter sets handed to the constructor.                               *)
(***************************************************************************)
crear_parametros_default ==
    [F_nominal              |-> 200000,    \* 2000.0 t/h
     L_nominal              |-> 720000,    \* 0.0072
     fraccion_recirculacion |-> 110000,    \* 0.11
     humedad_alimentacion   |-> 35000,     \* 0.035
     humedad_sag            |-> 300000,    \* 0.30
     humedad_recirculacion  |-> 80000,     \* 0.08
     k_descarga             |-> 500,       \* 0.5 1/h
     tau_recirculacion      |-> 900,       \* 90 min
     tau_finos              |-> 480]       \* 48 min

\* Parameter sets inside the documented ranges.
ParametrosValidos ==
    { crear_parametros_default,
      \* short delays, a whole number of steps
      [crear_parametros_default EXCEPT !.tau_recirculacion = 30, !.tau_finos = 50],
      \* zero recirculation and fines delay
      [crear_parametros_default EXCEPT !.tau_recirculacion = 0, !.tau_finos = 0],
      \* a delay of 2.4 min, not a whole number of steps
      [crear_parametros_default EXCEPT !.tau_recirculacion = 24, !.tau_finos = 50],
      \* fast discharge of a small feed: the inventories run down to their floors
      [crear_parametros_default EXCEPT !.k_descarga = 100000, !.F_nominal = 50000],
      \* a discharge of 5/h: at the initial 100 t it equals the minimum feed
      [crear_parametros_default EXCEPT !.k_descarga = 5000] }

\* Parameter sets outside them: k_descarga = 0, negative delays, a moisture of 1.2.
ParametrosInvalidos ==
    { [crear_parametros_default EXCEPT !.k_descarga = 0],
      [crear_parametros_default EXCEPT !.tau_recirculacion = -30, !.tau_finos = -20],
      [crear_parametros_default EXCEPT !.humedad_sag = 1200000] }

Parametros == ParametrosValidos \cup ParametrosInvalidos

\* What the spec asks of a parameter set (k > 0, delays >= 0, moistures in (0,1)).
ParametrosEnRango(p) ==
    /\ p.k_descarga > 0
    /\ p.tau_recirculacion >= 0
    /\ p.tau_finos >= 0
    /\ \A h \in {p.humedad_alimentacion, p.humedad_sag, p.humedad_recirculacion} :
          0 < h /\ h < Ppm

\* Seeds np.random.randint may draw.
Semillas == {0, 1}

\* Values actualizar_objetivo is called with: 'F' (t/h, unit 0.01; one above
\* F_max and one below F_min) and 'L'.
ValoresF == {1200000, 10000}

ValoresL == {1000000}

\* Kinds actualizar_objetivo is called with; "X" stands for any other kind.
Tipos == {"F", "L", "X"}

\* Values of reloj at which the caller invokes an operation other than a step.
MomentosOperacion == {2, 40}

(***************************************************************************)
(* Floating-point time.  t is the float sum of n additions of dt = 1/60.0; *)
(* the comparisons below are the ones the program's floats decide.         *)
(***************************************************************************)
\* t < 0.5: t after 30 additions is 0.49999999999999994.
EnArranque(n) == n <= 30

\* t > 1.0: t after 60 additions is 1.0000000000000013.
VariacionFActiva(n) == n >= 60

\* t > 1.5: t after 90 additions is 1.4999999999999996.
VariacionLActiva(n) == n >= 91

\* The n <= 12000 for which int(t / dt) is n - 1 instead of n.
TruncaBajo == {7} \cup (13..15) \cup (25..31) \cup (85..507) \cup (1357..8131)

\* int(self.estado['t'] / self.dt)
IntTSobreDt(n) == IF n \in TruncaBajo THEN n - 1 ELSE n

\* tiempo_pasado > 0, with tau in tenths of a minute (exact for the delays of
\* Parametros: there t - tau/60.0 is <= 0 at 10 * n = tau).
TiempoPasadoPositivo(n, tau) == 10 * n - tau > 0

\* t < tau_finos_horas (exact for the delays of Parametros).
AntesDeFinos(n, tau) == 10 * n < tau

\* t < tau_finos_horas + 1.0: for tau_finos = 48 min the float sum 0.8 + 1.0
\* still exceeds t after 108 additions.
EnTransicionFinos(n, tau) == 10 * n < tau + 600 \/ (tau = 480 /\ n = 108)

(***************************************************************************)
(* Tables of the transcendental functions, entry n + 1 for t = n / 60 h,    *)
(* rounded to ppm.                                                         *)
(***************************************************************************)
TablaOndasF ==
    << 27618, 27556, 27489, 27419, 27344, 27266, 27183, 27097, 27007, 26913, 26815, 26714, 26609, 26501,
       26389, 26275, 26157, 26036, 25912, 25785, 25655, 25523, 25388, 25250, 25110, 24967, 24822, 24675,
       24526, 24375, 24221, 24066, 23909, 23750, 23590, 23428, 23265, 23101, 22935, 22768, 22600, 22431,
       22261, 22091, 21919, 21747, 21575, 21402, 21229, 21055, 20882, 20708, 20534, 20361, 20187, 20014,
       19841, 19669, 19497, 19326, 19156, 18986, 18817, 18649, 18482, 18317, 18152, 17989, 17827, 17667,
       17508, 17350, 17195, 17041, 16889, 16738, 16590, 16444, 16299, 16157, 16018, 15880, 15745, 15612,
       15482, 15354, 15229, 15106, 14986, 14869, 14755, 14644, 14535, 14430, 14327, 14228, 14132, 14039,
       13949, 13862, 13779, 13699, 13623, 13549, 13480, 13413, 13351, 13291, 13236, 13184, 13135, 13090,
       13049, 13012, 12978, 12948, 12921, 12899, 12880, 12865, 12854, 12846, 12842, 12843, 12846, 12854,
       12866, 12881, 12900, 12923, 12950, 12980, 13014, 13052, 13094, 13140, 13189, 13242, 13298, 13358,
       13422, 13490, 13561, 13635, 13713, 13795, 13880, 13968, 14060, 14155, 14254, 14356, 14461, 14569,
       14681, 14795, 14913, 15034, 15157, 15284, 15413, 15546, 15681, 15818, 15959, 16102, 16247, 16395,
       16546, 16699, 16854, 17011, 17171, 17333, 17496, 17662, 17830, 17999, 18170, 18343, 18518, 18694,
       18872, 19051, 19231, 19413, 19596, 19779, 19964, 20150, 20337, 20525, 20713, 20902, 21092, 21282,
       21472, 21663, 21854, 22045, 22237, 22428, 22619, 22810, 23001, 23192, 23382, 23571, 23760, 23949,
       24136, 24323, 24509, 24694, 24878, 25061, 25242, 25423, 25601, 25779, 25955, 26129, 26301, 26472,
       26641, 26808, 26973, 27136, 27296, 27455, 27611, 27765, 27916, 28065, 28211, 28355, 28495, 28633,
       28769, 28901, 29030, 29156, 29279, 29399, 29515, 29628, 29738, 29844, 29947, 30046, 30142, 30234,
       30322, 30407, 30487, 30564, 30637, 30706, 30771, 30831, 30888, 30941, 30989, 31033, 31073, 31109,
       31140, 31167, 31190, 31208, 31222, 31231, 31235, 31236, 31231, 31222, 31209, 31191, 31168, 31141,
       31109, 31072, 31031, 30985, 30934, 30879, 30818, 30754, 30684, 30610, 30531, 30448, 30360, 30267,
       30169, 30067, 29961, 29849, 29733, 29613, 29488, 29358, 29224, 29085, 28942, 28795, 28643, 28487,
       28326, 28161, 27992, 27819, 27641, 27460, 27274, 27084, 26890, 26692, 26491, 26285, 26075, 25862,
       25645, 25425, 25201, 24973, 24742, 24507, 24269, 24028, 23783, 23536, 23285, 23031, 22775, 22515,
       22253, 21987, 21720, 21449, 21176, 20901, 20623, 20343, 20061, 19777, 19490, 19202, 18912, 18620,
       18326, 18031, 17734, 17436, 17137, 16836, 16534, 16231, 15927, 15622, 15316, 15010, 14703, 14395,
       14087, 13779, 13470, 13161, 12853, 12544, 12235, 11927, 11619, 11311, 11004, 10698, 10392, 10087,
       9783, 9480, 9178, 8878, 8578, 8280, 7984, 7689, 7396, 7104, 6815, 6527, 6241, 5958,
       5677, 5398, 5121, 4848, 4576, 4308, 4042, 3779, 3519, 3262, 3008, 2757, 2510, 2266,
       2025, 1788, 1555, 1326, 1100, 878, 660, 446, 236, 30, -171, -368, -561, -749,
       -933, -1112, -1287, -1457, -1622, -1782, -1937, -2087, -2233, -2373, -2508, -2638, -2763, -2882,
       -2996, -3105, -3208, -3306, -3398, -3485, -3566, -3642, -3712, -3776, -3834, -3887, -3934, -3975,
       -4010, -4040, -4063, -4081, -4092, -4098, -4098, -4092, -4080, -4061, -4037, -4007, -3971, -3929,
       -3880, -3826, -3766, -3699, -3627, -3549, -3465, -3374, -3278, -3176, -3068, -2954, -2834, -2708,
       -2577, -2439, -2296, -2147, -1992, -1832, -1666, -1494, -1317, -1134, -945, -751, -552, -347,
       -137, 78, 299, 524, 755, 991, 1232, 1478, 1729, 1985, 2245, 2511, 2780, 3055,
       3334, 3617, 3905, 4197, 4494, 4794, 5099, 5407, 5720, 6036, 6356, 6680, 7008, 7339,
       7673, 8011, 8352, 8696, 9043, 9394, 9747, 10103, 10462, 10823, 11187, 11553, 11922, 12293,
       12666, 13041, 13419, 13798, 14179, 14561, 14945, 15331, 15718, 16106, 16495, 16886, 17277, 17669,
       18063, 18456, 18851, 19245, 19641, 20036, 20432, 20827, 21223, 21618, 22013, 22408, 22802, 23196,
       23589, 23982, 24373, 24764, 25153, 25541, 25929, 26314, 26699, 27081, 27462, 27842, 28219, 28594,
       28968, 29339, 29708, 30075, 30440, 30802, 31161, 31518, 31871, 32222, 32571, 32916, 33258, 33596,
       33932, 34264, 34593, 34918, 35239, 35557, 35872, 36182, 36488, 36791, 37089, 37384, 37674, 37960,
       38241, 38519, 38792, 39060, 39324, 39583, 39837, 40087, 40332, 40572, 40808, 41038, 41264, 41484,
       41699, 41909, 42114, 42314, 42509, 42698, 42882, 43061, 43234, 43402, 43565, 43722, 43874, 44020,
       44160, 44295, 44425, 44549, 44667, 44780, 44887, 44988, 45084, 45174, 45259, 45338, 45411, 45479,
       45541, 45597, 45648, 45693, 45732, 45766, 45794, 45817, 45834, 45846, 45852, 45853, 45848, 45837,
       45822, 45800, 45774, 45742, 45705, 45662, 45614, 45561, 45503, 45440, 45372, 45298, 45220, 45137,
       45049, 44955, 44858, 44755, 44648, 44536, 44419, 44298, 44172, 44042, 43908, 43769, 43626, 43479,
       43328, 43172, 43013, 42850, 42683, 42512, 42337, 42159, 41977, 41792, 41604, 41412, 41216, 41018,
       40816, 40612, 40404, 40194, 39981, 39765, 39546, 39325, 39102, 38876, 38647, 38417, 38184, 37950,
       37713, 37475, 37234, 36992, 36749, 36503, 36257, 36009, 35759, 35509, 35257, 35005, 34751, 34497,
       34242, 33986, 33729, 33472, 33215, 32957, 32699, 32441, 32183, 31925, 31667, 31409, 31151, 30894,
       30637, 30380, 30125, 29869, 29615, 29361, 29109, 28857, 28606, 28356, 28108, 27861, 27615, 27371,
       27128, 26887, 26647, 26409, 26173, 25938, 25706, 25475, 25247, 25020, 24796, 24574, 24354, 24137,
       23922, 23709, 23499, 23292, 23087, 22885, 22685, 22488, 22294, 22103, 21915, 21730, 21547, 21368,
       21192, 21018, 20848, 20681, 20517, 20357, 20200, 20046, 19895, 19748, 19603, 19463, 19326, 19192,
       19061, 18934, 18811, 18691, 18574, 18461, 18351, 18245, 18143, 18044, 17948, 17856, 17767, 17682,
       17601, 17523, 17448, 17377, 17309, 17245, 17184, 17127, 17073, 17022, 16975, 16931, 16891, 16853,
       16819, 16789, 16761, 16737, 16715, 16697, 16682, 16670, 16661, 16655, 16652, 16651, 16654, 16659,
       16667, 16678, 16691, 16707, 16725, 16746, 16769, 16795, 16823, 16853, 16885, 16920, 16957, 16995,
       17036, 17078, 17122, 17168, 17216, 17265, 17316, 17369, 17422, 17477, 17534, 17591, 17650, 17709,
       17770, 17832, 17894, 17957, 18021, 18085, 18150, 18215, 18280, 18346, 18412, 18478, 18544, 18610,
       18676, 18742, 18807, 18872, 18936, 19000, 19063, 19126, 19187, 19248, 19308, 19367, 19424, 19481,
       19536, 19589, 19642, 19692, 19741, 19788, 19834, 19877, 19919, 19959, 19996, 20031, 20064, 20095,
       20123, 20148, 20171, 20192, 20209, 20224, 20236, 20245, 20251, 20253, 20253, 20249, 20242, 20232,
       20218, 20201, 20180, 20155, 20127, 20095, 20059, 20019, 19975, 19927, 19875, 19819, 19759, 19695,
       19626, 19553, 19475, 19393, 19307, 19216, 19121, 19021, 18916, 18807, 18693, 18574, 18450, 18322,
       18188, 18050, 17907, 17759, 17606, 17448, 17285, 17117, 16943, 16765, 16582, 16393, 16200, 16001,
       15797, 15588, 15374, 15155, 14931, 14701, 14466, 14226, 13981, 13731, 13476, 13215, 12950, 12679,
       12403, 12122, 11836, 11545, 11249, 10948, 10642, 10331, 10016, 9695, 9369, 9039, 8704, 8364,
       8019, 7670, 7316, 6958, 6595, 6227, 5855, 5479, 5098, 4713, 4323, 3930, 3532, 3131,
       2725, 2315, 1902, 1484, 1063, 638, 209, -223, -658, -1097, -1540, -1985, -2434, -2886,
       -3341, -3799, -4260, -4723, -5190, -5659, -6130, -6604, -7081, -7560, -8041, -8524, -9009, -9496,
       -9985, -10475, -10967, -11461, -11957, -12453, -12951, -13450, -13951, -14452, -14954, -15457, -15960, -16465,
       -16969, -17474, -17980, -18485, -18991, -19497, -20002, -20507, -21012, -21517, -22021, -22524, -23027, -23529,
       -24030, -24529, -25028, -25526, -26022, -26516, -27009, -27501, -27990, -28478, -28964, -29448, -29930, -30409,
       -30886, -31361, -31833, -32302, -32769, -33232, -33693, -34151, -34606, -35057, -35505, -35950, -36391, -36829,
       -37263, -37693, -38119, -38542, -38960, -39374, -39784, -40190, -40591, -40988, -41381, -41768, -42152, -42530,
       -42904, -43272, -43636, -43995, -44348, -44696, -45040, -45377, -45710, -46037, -46358, -46674, -46984, -47289,
       -47588, -47881, -48168, -48450, -48725, -48995, -49258, -49516, -49767, -50012, -50251, -50484, -50710, -50930,
       -51144, -51351, -51552, -51747, -51935, -52117, -52292, -52461, -52623, -52779, -52928, -53070, -53206, -53336,
       -53458, -53575, -53684, -53787, -53883, -53973, -54056, -54133, -54203, -54266, -54323, -54373, -54417, -54454,
       -54484, -54508, -54526, -54537, -54542, -54540, -54532, -54518, -54497, -54470, -54437, -54397, -54352, -54300,
       -54242, -54178, -54108, -54032, -53950, -53863, -53769, -53670, -53565, -53454, -53338, -53216, -53089, -52956,
       -52818, -52675, -52527, -52373, -52214, -52050, -51881, -51708, -51529, -51346, -51158, -50965, -50768, -50567,
       -50361, -50151, -49937, -49718, -49496, -49269, -49039, -48805, -48567, -48326, -48081, -47833, -47581, -47326,
       -47068, -46807, -46543, -46276, -46006, -45733, -45458, -45181, -44901, -44618, -44334, -44047, -43758, -43468,
       -43175, -42881, -42585, -42287, -41988, -41688, -41387, -41084, -40780, -40476, -40170, -39864, -39557, -39249,
       -38941, -38632, -38324, -38015, -37706, -37396, -37088, -36779, -36470, -36162, -35854, -35547, -35241, -34935,
       -34630, -34326, -34023, -33722, -33421, -33122, -32824, -32527, -32232, -31938, -31647, -31357, -31069, -30783,
       -30498, -30216, -29936, -29659, -29384, -29111, -28840, -28572, -28307, -28044, -27784, -27527, -27273, -27022,
       -26774, -26529, -26286, -26048, -25812, -25580, -25351, -25125, -24903, -24684, -24469, -24258, -24050, -23845,
       -23645, -23448, -23255, -23066, -22881, -22700, -22523, -22349, -22180, -22015, -21854, -21696, -21543, -21395,
       -21250, -21109, -20973, -20841, -20713, -20589, -20470, -20354, -20243, -20137, -20034, -19936, -19842, -19752,
       -19667, -19586, -19509, -19436, -19367, -19303, -19243, -19187, -19136, -19088, -19045, -19005, -18970, -18939,
       -18912, -18889, -18870, -18855, -18843, -18836, -18833, -18833, -18837, -18845, -18856, -18872, -18891, -18913,
       -18939, -18968, -19001, -19038, -19077, -19120, -19166, -19215, -19268, -19323, -19382, -19443, -19507, -19575,
       -19644, -19717, -19792, -19870, -19950, -20033, -20118, -20205, -20295, -20387, -20480, -20576, -20674, -20774,
       -20875, -20978, -21083, -21189, -21297, -21407, -21517, -21629, -21742, -21856, -21971, -22088, -22205, -22322,
       -22441, -22560, -22679, -22799, -22920, -23041, -23162, -23283, -23404, -23525, -23646, -23767, -23887, -24007,
       -24127, -24246, -24365, -24483, -24600, -24716, -24832, -24946, -25059, -25171, -25282, -25392, -25500, -25607,
       -25712, -25816, -25918, -26018, -26116, -26213, -26307, -26399, -26490, -26578, -26664, -26747, -26828, -26907,
       -26983, -27056, -27127, -27195, -27260, -27323, -27383, -27439, -27493, -27543, -27591, -27635, -27676, -27714,
       -27748, -27779, -27807, -27831, -27852, -27869, -27883, -27893, -27899, -27901, -27900, -27895, -27886, -27873,
       -27857, -27836, -27812, -27784, -27751, -27715, -27674, -27630, -27582, -27529, -27472, -27411, -27347, -27277,
       -27204, -27127, -27045, -26960, -26870, -26776, -26678, -26576, -26469, -26359, -26244, -26125, -26002, -25875,
       -25744, -25608, -25469, -25326, -25178, -25027, -24872, -24712, -24549, -24382, -24211, -24036, -23857, -23675,
       -23489, -23299, -23105, -22908, -22708, -22503, -22296, -22085, -21870, -21652, -21431, -21206, -20979, -20748,
       -20514, -20277, -20038, -19795, -19549, -19301, -19050, -18796, -18540, -18281, -18019, -17756, -17490, -17221,
       -16951, -16678, -16404, -16127, -15849, -15569, -15287, -15003, -14718, -14431, -14143, -13854, -13563, -13271,
       -12979, -12685, -12390, -12094, -11798, -11501, -11204, -10906, -10607, -10308, -10010, -9711, -9412, -9113,
       -8814, -8515, -8217, -7919, -7622, -7325, -7029, -6734, -6439, -6146, -5853, -5562, -5272, -4983,
       -4696, -4410, -4126, -3844, -3563, -3284, -3007, -2732, -2460, -2189, -1921, -1655, -1392, -1131,
       -873, -617, -365, -115, 132, 376, 616, 854, 1088, 1318, 1546, 1769, 1989, 2206,
       2419, 2628, 2833, 3034, 3231, 3424, 3612, 3797, 3977, 4153, 4325, 4492, 4654, 4812,
       4965, 5114, 5257, 5396, 5530, 5660, 5784, 5903, 6017, 6126, 6230, 6329, 6422, 6510,
       6593, 6671, 6743, 6810, 6871, 6927, 6978, 7023, 7062, 7096, 7124, 7147, 7164, 7176,
       7182, 7182, 7177, 7165, 7149, 7126, 7098, 7064, 7025, 6980, 6929, 6872, 6810, 6743,
       6669, 6590, 6505, 6415, 6319, 6218, 6111, 5999, 5881, 5757, 5629, 5495, 5355, 5210,
       5060, 4904, 4744, 4578, 4407, 4231, 4050, 3864, 3673, 3477, 3276, 3070, 2860, 2644,
       2425, 2200, 1972, 1738, 1501, 1259, 1012, 762, 507, 249, -14, -280, -551, -825,
       -1103, -1384, -1669, -1957, -2249, -2544, -2842, -3144, -3448, -3756, -4066, -4379, -4694, -5013,
       -5333, -5656, -5982, -6310, -6639, -6971, -7305, -7641, -7978, -8317, -8657, -8999, -9343, -9687,
       -10033, -10380, -10728, -11076, -11426, -11776, -12126, -12477, -12829, -13180, -13532, -13884, -14235, -14587,
       -14938, -15289, -15639, -15989, -16338, -16686, -17034, -17380, -17726, -18070, -18413, -18754, -19094, -19432,
       -19769, -20104, -20436, -20767, -21096, -21423, -21747, -22069, -22389, -22705, -23020, -23331, -23640, -23945,
       -24248, -24547, -24844, -25137, -25426, -25712, -25995, -26274, -26549, -26820, -27088, -27351, -27611, -27866,
       -28117, -28364, -28607, -28845, -29078, -29307, -29532, -29751, -29966, -30176, -30381, -30582, -30777, -30967,
       -31152, -31332, -31507, -31676, -31840, -31999, -32152, -32299, -32442, -32578, -32709, -32835, -32954, -33068,
       -33176, -33279, -33375, -33466, -33551, -33630, -33703, -33770, -33831, -33886, -33935, -33978, -34015, -34046,
       -34071, -34089, -34102, -34109, -34109, -34104, -34092, -34074, -34051, -34021, -33985, -33943, -33895, -33841,
       -33781, -33715, -33643, -33564, -33480, -33391, -33295, -33193, -33086, -32972, -32853, -32728, -32598, -32461,
       -32319, -32172, -32019, -31860, -31696, -31527, -31352, -31171, -30986, -30795, -30599, -30398, -30192, -29981,
       -29765, -29543, -29318, -29087, -28852, -28612, -28367, -28118, -27864, -27606, -27344, -27078, -26807, -26532,
       -26253, -25971, -25684, -25394, -25100, -24802, -24501, -24196, -23888, -23577, -23262, -22944, -22623, -22300,
       -21973, -21644, -21312, -20977, -20640, -20300, -19958, -19614, -19267, -18918, -18568, -18216, -17861, -17505,
       -17148, -16789, -16428, -16066, -15703, -15339, -14974, -14607, -14240, -13872, -13504, -13134, -12765, -12394,
       -12024, -11653, -11282, -10911, -10540, -10170, -9799, -9429, -9059, -8690, -8321, -7953, -7586, -7219,
       -6854, -6489, -6126, -5763, -5402, -5043, -4684, -4327, -3972, -3619, -3267, -2917, -2569, -2223,
       -1879, -1537, -1197, -860, -525, -192, 139, 466, 791, 1114, 1434, 1751, 2065, 2376,
       2684, 2990, 3292, 3591, 3887, 4179, 4469, 4755, 5037, 5317, 5592, 5865, 6133, 6398,
       6660, 6918, 7172, 7422, 7669, 7912, 8151, 8386, 8617, 8844, 9068, 9287, 9503, 9714,
       9922, 10125, 10325, 10520, 10711, 10899, 11082, 11261, 11436, 11607, 11774, 11937, 12096, 12251,
       12402, 12548, 12691, 12830, 12964, 13095, 13221, 13344, 13463, 13578, 13688, 13795, 13899, 13998,
       14093, 14185, 14273, 14357, 14438, 14515, 14588, 14658, 14724, 14787, 14846, 14902, 14955, 15004,
       15050, 15093, 15133, 15169, 15203, 15233, 15261, 15285, 15307, 15326, 15342, 15356, 15367, 15376,
       15382, 15385, 15387, 15386, 15382, 15377, 15370, 15360, 15349, 15336, 15321, 15304, 15286, 15266,
       15244, 15221, 15197, 15172, 15145, 15117, 15088, 15059, 15028, 14996, 14964, 14931, 14898, 14864,
       14830, 14795, 14760, 14725, 14690, 14654, 14619, 14584, 14550, 14515, 14481, 14447, 14414, 14382,
       14350, 14319, 14289, 14260, 14232, 14205, 14179, 14155, 14132, 14110, 14089, 14071, 14054, 14038,
       14025, 14013, 14003, 13995, 13989, 13985, 13984, 13985, 13988, 13994, 14002, 14012, 14025, 14041,
       14060, 14081, 14105, 14132, 14162, 14195, 14231, 14271, 14313, 14359, 14408, 14460, 14515, 14574,
       14637, 14703, 14773, 14846, 14922, 15003, 15087, 15175, 15267, 15362, 15462, 15565, 15672, 15783,
       15898, 16017, 16140, 16267, 16398, 16533, 16673, 16816, 16963, 17115, 17270, 17430, 17594, 17762,
       17934, 18110, 18291, 18475, 18664, 18857, 19054, 19255, 19460, 19670, 19883, 20101, 20322, 20548,
       20777, 21011, 21248, 21490, 21735, 21985, 22238, 22495, 22756, 23020, 23289, 23560, 23836, 24115,
       24398, 24685, 24974, 25268, 25564, 25864, 26167, 26474, 26784, 27096, 27412, 27731, 28053, 28378,
       28705, 29035, 29368, 29704, 30042, 30383, 30726, 31071, 31419, 31769, 32121, 32475, 32831, 33189,
       33549, 33911, 34274, 34639, 35005, 35373, 35742, 36113, 36484, 36857, 37230, 37605, 37980, 38356,
       38733, 39110, 39488, 39866, 40245, 40623, 41002, 41380, 41759, 42137, 42515, 42893, 43270, 43646,
       44022, 44397, 44771, 45145, 45517, 45888, 46258, 46626, 46993, 47358, 47722, 48084, 48444, 48802,
       49159, 49513, 49865, 50214, 50561, 50906, 51248, 51587, 51924, 52257, 52588, 52915, 53240, 53561,
       53879, 54193, 54504, 54811, 55115, 55415, 55710, 56002, 56290, 56574, 56854, 57129, 57400, 57666,
       57928, 58186, 58438, 58686, 58929, 59167, 59401, 59629, 59852, 60070, 60282, 60490, 60691, 60888,
       61079, 61264, 61444, 61618, 61787, 61949, 62106, 62257, 62402, 62541, 62673, 62800, 62921, 63035,
       63144, 63246, 63341, 63431, 63514, 63590, 63661, 63724, 63782, 63832, 63877, 63914, 63946, 63970,
       63988, 63999, 64004, 64002, 63993, 63978, 63956, 63927, 63892, 63850, 63801, 63746, 63684, 63615,
       63539, 63457, 63369, 63273, 63171, 63063, 62948, 62826, 62698, 62563, 62422, 62274, 62120, 61959,
       61792, 61619, 61440, 61254, 61062, 60864, 60659, 60449, 60232, 60010, 59782, 59547, 59307, 59061,
       58809, 58552, 58289, 58020, 57746, 57467, 57182, 56891, 56596, 56295, 55990, 55679, 55363, 55042,
       54717, 54387, 54052, 53712, 53368, 53020, 52667, 52310, 51949, 51583, 51214, 50841, 50464, 50083,
       49698, 49310, 48919, 48524, 48126, 47725, 47320, 46913, 46502, 46089, 45673, 45255, 44834, 44410,
       43984, 43556, 43126, 42694, 42260, 41824, 41386, 40947, 40506, 40064, 39621, 39176, 38730, 38284,
       37836, 37388, 36938, 36489, 36038, 35588, 35137, 34686, 34235, 33784, 33333, 32882, 32431, 31981,
       31532, 31083, 30635, 30188, 29741, 29296, 28852, 28409, 27967, 27527, 27088, 26651, 26215, 25782,
       25350, 24920, 24492, 24067, 23643, 23222, 22803, 22387, 21974, 21563, 21154, 20749, 20347, 19947,
       19551, 19157, 18767, 18380, 17997, 17617, 17240, 16867, 16498, 16133, 15771, 15413, 15059, 14708,
       14362, 14020, 13682, 13348, 13019, 12694, 12373, 12056, 11744, 11436, 11133, 10835, 10541, 10252,
       9967, 9687, 9412, 9142, 8876, 8616, 8360, 8109, 7863, 7622, 7386, 7155, 6929, 6707,
       6491, 6280, 6075, 5874, 5678, 5487, 5301, 5121, 4945, 4775, 4610, 4450, 4294, 4144,
       3999, 3859, 3724, 3594, 3469, 3349, 3234, 3124, 3019, 2918, 2823, 2732, 2646, 2565,
       2489, 2417, 2350, 2288, 2230, 2177, 2128, 2084, 2044, 2009, 1978, 1951, 1929, 1910,
       1896, 1886, 1880, 1878, 1879, 1885, 1894, 1907, 1924, 1945, 1969, 1996, 2027, 2061,
       2099, 2139, 2183, 2230, 2280, 2333, 2388, 2447, 2508, 2572, 2638, 2707, 2778, 2851,
       2927, 3005, 3085, 3167, 3251, 3336, 3424, 3513, 3603, 3696, 3789, 3884, 3980, 4078,
       4176, 4276, 4376, 4477, 4579, 4682, 4785, 4888, 4992, 5097, 5201, 5306, 5411, 5516,
       5620, 5725, 5829, 5933, 6037, 6140, 6242, 6344, 6445, 6545, 6644, 6742, 6839, 6935,
       7030, 7124, 7216, 7306, 7395, 7483, 7569, 7653, 7735, 7816, 7894, 7970, 8045, 8117,
       8187, 8255, 8320, 8383, 8443, 8501, 8556, 8609, 8659, 8706, 8751, 8792, 8831, 8867,
       8899, 8929, 8955, 8979, 8999, 9016, 9030, 9040, 9047, 9050, 9051, 9047, 9041, 9030,
       9016, 8999, 8978, 8953, 8925, 8893, 8857, 8818, 8775, 8728, 8677, 8623, 8565, 8503,
       8437, 8368, 8295, 8218, 8137, 8052, 7964, 7871, 7775, 7675, 7572, 7464, 7353, 7238,
       7120, 6998, 6872, 6742, 6609, 6472, 6331, 6187, 6040, 5888, 5734, 5576, 5414, 5249,
       5081, 4910, 4735, 4557, 4376, 4191, 4004, 3814, 3620, 3424, 3224, 3022, 2817, 2609,
       2399, 2186, 1970, 1752, 1532, 1309, 1083, 856, 626, 394, 160, -76, -314, -554,
       -795, -1039, -1284, -1530, -1778, -2028, -2279, -2531, -2784, -3038, -3294, -3550, -3808, -4066,
       -4325, -4584, -4844, -5105, -5366, -5627, -5889, -6150, -6412, -6674, -6935, -7197, -7458, -7719,
       -7979, -8239, -8498, -8757, -9015, -9271, -9527, -9782, -10036, -10289, -10540, -10790, -11038, -11285,
       -11530, -11774, -12015, -12255, -12493, -12729, -12962, -13194, -13423, -13650, -13874, -14096, -14315, -14532,
       -14746, -14956, -15165, -15370, -15572, -15770, -15966, -16158, -16347, -16533, -16715, -16894, -17069, -17240,
       -17407, -17571, -17731, -17887, -18039, -18186, -18330, -18470, -18605, -18736, -18863, -18985, -19103, -19217,
       -19325, -19430, -19530, -19625, -19715, -19801, -19882, -19958, -20029, -20095, -20157, -20213, -20265, -20311,
       -20353, -20389, -20421, -20447, -20468, -20484, -20495, -20501, -20501, -20497, -20487, -20472, -20451, -20426,
       -20395, -20359, -20318, -20272, -20220, -20163, -20101, -20034, -19962, -19884, -19802, -19714, -19621, -19523,
       -19420, -19311, -19198, -19080, -18957, -18828, -18695, -18557, -18414, -18267, -18114, -17957, -17795, -17628,
       -17457, -17281, -17101, -16916, -16727, -16533, -16335, -16133, -15927, -15716, -15501, -15282, -15060, -14833,
       -14603, -14368, -14130, -13889, -13643, -13395, -13143, -12887, -12628, -12366, -12101, -11833, -11562, -11287,
       -11010, -10731, -10448, -10164, -9876, -9586, -9294, -9000, -8704, -8405, -8105, -7802, -7498, -7193,
       -6885, -6576, -6266, -5955, -5642, -5328, -5013, -4697, -4381, -4064, -3746, -3427, -3108, -2789,
       -2470, -2150, -1831, -1511, -1192, -873, -554, -236, 82, 398, 715, 1030, 1344, 1657,
       1969, 2280, 2589, 2897, 3203, 3508, 3811, 4111, 4410, 4707, 5002, 5294, 5584, 5872,
       6157, 6439, 6719, 6996, 7270, 7541, 7809, 8073, 8334, 8592, 8847, 9098, 9345, 9589,
       9829, 10065, 10297, 10525, 10749, 10968, 11184, 11395, 11601, 11804, 12001, 12194, 12382, 12566,
       12745, 12918, 13087, 13251, 13410, 13563, 13712, 13855, 13993, 14125, 14252, 14374, 14490, 14601,
       14706, 14805, 14898, 14986, 15068, 15145, 15215, 15280, 15338, 15391, 15438, 15479, 15513, 15542,
       15565, 15581, 15592, 15596, 15594, 15586, 15572, 15552, 15526, 15493, 15454, 15409, 15358, 15301,
       15237, 15168, 15092, 15010, 14922, 14827, 14727, 14620, 14508, 14389, 14264, 14133, 13997, 13854,
       13705, 13550, 13390, 13223, 13051, 12873, 12689, 12500, 12305, 12104, 11898, 11686, 11468, 11246,
       11017, 10784, 10545, 10301, 10052, 9798, 9538, 9274, 9004, 8730, 8451, 8168, 7879, 7586,
       7289, 6987, 6680, 6370, 6055, 5736, 5412, 5085, 4754, 4419, 4080, 3738, 3392, 3043,
       2690, 2333, 1974, 1611, 1245, 876, 505, 130, -247, -627, -1009, -1394, -1781, -2171,
       -2563, -2956, -3352, -3749, -4149, -4550, -4952, -5356, -5762, -6168, -6576, -6985, -7395, -7806,
       -8218, -8630, -9043, -9457, -9871, -10285, -10699, -11114, -11529, -11943, -12357, -12771, -13185, -13598,
       -14010, -14422, -14834, -15244, -15653, -16061, -16468, -16874, -17279, -17682, -18084, -18484, -18882, -19279,
       -19673, -20066, -20457, -20846, -21232, -21616, -21998, -22377, -22754, -23128, -23499, -23868, -24234, -24597,
       -24957, -25314, -25667, -26018, -26365, -26709, -27049, -27386, -27719, -28049, -28375, -28698, -29016, -29331,
       -29642, -29949, -30251, -30550, -30845, -31135, -31422, -31704, -31981, -32255, -32524, -32788, -33048, -33304,
       -33555, -33801, -34043, -34280, -34513, -34741, -34964, -35182, -35396, -35605, -35809, -36008, -36202, -36392,
       -36576, -36756, -36931, -37101, -37266, -37426, -37582, -37732, -37878, -38018, -38154, -38285, -38411, -38532,
       -38648, -38760, -38866, -38968, -39065, -39157, -39245, -39327, -39405, -39478, -39547, -39611, -39670, -39725,
       -39775, -39821, -39862, -39899, -39932, -39960, -39984, -40003, -40018, -40030, -40037, -40039, -40038, -40033,
       -40024, -40011, -39994, -39974, -39950, -39922, -39890, -39855, -39816, -39774, -39729, -39681, -39629, -39574,
       -39516, -39455, -39390, -39324, -39254, -39181, -39106, -39028, -38948, -38865, -38780, -38693, -38603, -38511,
       -38417, -38321, -38224, -38124, -38022, -37919, -37815, -37708, -37601, -37492, -37381, -37270, -37157, -37044,
       -36929, -36813, -36697, -36580, -36462, -36344, -36226, -36107, -35987, -35868, -35748, -35628, -35508, -35389,
       -35269, -35150, -35031, -34913, -34795, -34677, -34560, -34444, -34329, -34215, -34101, -33989, -33878, -33768,
       -33659, -33551, -33445, -33340, -33237, -33136, -33036, -32938, -32841, -32747, -32654, -32564, -32475, -32389,
       -32304, -32222, -32143, -32065, -31991, -31918, -31848, -31781, -31716, -31654, -31595, -31538, -31484, -31433,
       -31385, -31340, -31298, -31259, -31223, -31190, -31160, -31133, -31110, -31089, -31072, -31059, -31048, -31041,
       -31038, -31037, -31040, -31047, -31057, -31070, -31087, -31107, -31131, -31158, -31189, -31223, -31261, -31302,
       -31347, -31395, -31447, -31502, -31561, -31623, -31689, -31758, -31831, -31907, -31987, -32070, -32157, -32246,
       -32340, -32436, -32536, -32639, -32746, -32855, -32968, -33084, -33203, -33325, -33451, -33579, -33710, -33845,
       -33982, -34122, -34265, -34410, -34559, -34710, -34863, -35019, -35178, -35339, -35503, -35669, -35837, -36007,
       -36180, -36355, -36531, -36710, -36891, -37073, -37257, -37443, -37631, -37820, -38010, -38202, -38396, -38590,
       -38786, -38983, -39181, -39380, -39580, -39780, -39982, -40184, -40386, -40589, -40793, -40996, -41200, -41405,
       -41609, -41813, -42017, -42221, -42424, -42627, -42830, -43032, -43233, -43434, -43634, -43833, -44031, -44228,
       -44424, -44618, -44811, -45003, -45193, -45381, -45568, -45753, -45936, -46117, -46296, -46473, -46648, -46820,
       -46990, -47157, -47322, -47484, -47643, -47799, -47953, -48103, -48250, -48395, -48535, -48673, -48807, -48937,
       -49064, -49188, -49307, -49423, -49534, -49642, -49746, -49845, -49941, -50032, -50119, -50201, -50279, -50352,
       -50421, -50485, -50544, -50598, -50648, -50692, -50732, -50766, -50796, -50820, -50839, -50853, -50861, -50864,
       -50862, -50854, -50841, -50822, -50798, -50767, -50732, -50690, -50643, -50590, -50531, -50466, -50396, -50319,
       -50237, -50148, -50054, -49953, -49847, -49734, -49616, -49491, -49360, -49224, -49081, -48932, -48776, -48615,
       -48448, -48274, -48094, -47908, -47716, -47518, -47314, -47104, -46887, -46665, -46436, -46201, -45961, -45714,
       -45461, -45203, -44938, -44668, -44391, -44109, -43821, -43527, -43228, -42922, -42611, -42295, -41972, -41644,
       -41311, -40972, -40628, -40279, -39924, -39564, -39198, -38828, -38452, -38072, -37686, -37296, -36900, -36500,
       -36095, -35686, -35272, -34853, -34430, -34003, -33572, -33136, -32696, -32252, -31804, -31352, -30896, -30437,
       -29974, -29507, -29037, -28564, -28087, -27607, -27124, -26638, -26149, -25657, -25162, -24665, -24165, -23663,
       -23158, -22651, -22142, -21631, -21118, -20602, -20086, -19567, -19047, -18526, -18003, -17479, -16953, -16427,
       -15900, -15371, -14843, -14313, -13783, -13252, -12722, -12191, -11659, -11128, -10597, -10066, -9536, -9006,
       -8476, -7947, -7418, -6891, -6364, -5839, -5315, -4791, -4270, -3749, -3230, -2713, -2198, -1684,
       -1172, -663, -155, 350, 853, 1353, 1851, 2346, 2839, 3329, 3816, 4300, 4780, 5258,
       5733, 6204, 6671, 7135, 7596, 8053, 8506, 8955, 9400, 9842, 10279, 10712, 11141, 11565,
       11986, 12401, 12813, 13219, 13621, 14019, 14411, 14799, 15182, 15559, 15932, 16300, 16663, 17020,
       17372, 17719, 18061, 18397, 18728, 19054, 19373, 19688, 19997, 20300, 20597, 20889, 21175, 21456,
       21730, 21999, 22262, 22519, 22770, 23016, 23255, 23489, 23716, 23938, 24154, 24364, 24567, 24765,
       24957, 25143, 25323, 25496, 25664, 25826, 25982, 26132, 26276, 26414, 26546, 26673, 26793, 26908,
       27016, 27119, 27216, 27307, 27393, 27473, 27547, 27615, 27678, 27735, 27787, 27833, 27874, 27909,
       27939, 27963, 27982, 27996, 28005, 28009, 28007, 28001, 27989, 27973, 27951, 27925, 27894, 27859,
       27819, 27774, 27724, 27671, 27613, 27550, 27483, 27413, 27338, 27259, 27176, 27089, 26998, 26904,
       26806, 26705, 26600, 26491, 26379, 26264, 26146, 26025, 25901, 25774, 25644, 25511, 25376, 25238,
       25097, 24954, 24809, 24662, 24513, 24361, 24208, 24052, 23895, 23736, 23576, 23414, 23251, 23086,
       22920, 22753, 22585, 22416, 22246, 22075, 21904, 21732, 21559, 21387, 21213, 21040, 20866, 20692,
       20519, 20345, 20172, 19999, 19826, 19654, 19482, 19311, 19140, 18971, 18802, 18634, 18468, 18302,
       18138, 17975, 17813, 17653, 17494, 17337, 17181, 17027, 16875, 16725, 16577, 16431, 16287, 16145,
       16005, 15868, 15733, 15600, 15470, 15343, 15218, 15095, 14976, 14859, 14745, 14634, 14526, 14421,
       14318, 14219, 14123, 14031, 13941, 13855, 13772, 13692, 13616, 13543, 13474, 13408, 13345, 13286,
       13231, 13179, 13131, 13086, 13046, 13008, 12975, 12945, 12919, 12897, 12878, 12864, 12853, 12846,
       12842, 12843, 12847, 12855, 12867, 12883, 12902, 12925, 12952, 12983, 13018, 13056, 13098, 13144,
       13193, 13246, 13303, 13364, 13428, 13496, 13567, 13642, 13720, 13802, 13888, 13976, 14069, 14164,
       14263, 14365, 14470, 14579, 14691, 14806, 14924, 15044, 15168, 15295, 15425, 15557, 15693, 15831,
       15971, 16115, 16260, 16409, 16559, 16712, 16868, 17025, 17185, 17347, 17511, 17677, 17845, 18014,
       18186, 18359, 18533, 18710, 18887, 19067, 19247, 19429, 19612, 19796, 19981, 20167, 20354, 20542,
       20730, 20919, 21109, 21299, 21489, 21680, 21871, 22062, 22254, 22445, 22636, 22827, 23018, 23209,
       23399, 23588, 23777, 23966, 24153, 24340, 24526, 24711, 24894, 25077, 25258, 25439, 25617, 25795,
       25970, 26144, 26317, 26487, 26656, 26823, 26987, 27150, 27311, 27469, 27625, 27778, 27930, 28078,
       28224, 28367, 28508, 28646, 28780, 28912, 29041, 29167, 29290, 29409, 29525, 29638, 29747, 29853,
       29956, 30055, 30150, 30242, 30330, 30414, 30494, 30571, 30643, 30712, 30776, 30837, 30893, 30945,
       30993, 31037, 31077, 31112, 31143, 31169, 31191, 31209, 31223, 31231, 31236, 31235, 31231, 31221,
       31207, 31189, 31166, 31138, 31106, 31068, 31027, 30980, 30929, 30873, 30813, 30748, 30678, 30603,
       30524, 30440, 30352, 30258, 30161, 30058, 29951, 29839, 29723, 29602, 29476, 29346, 29212, 29073,
       28930, 28782, 28629, 28473, 28312, 28147, 27977, 27803, 27625, 27443, 27257, 27067, 26873, 26675,
       26472, 26266, 26057, 25843, 25626, 25405, 25181, 24953, 24721, 24486, 24248, 24006, 23762, 23514,
       23263, 23009, 22752, 22492, 22229, 21964, 21696, 21425, 21152, 20876, 20598, 20318, 20036, 19751,
       19465, 19176, 18886, 18594, 18300, 18005, 17708, 17410, 17110, 16809, 16507, 16204, 15900, 15595,
       15289, 14982, 14675, 14368, 14060, 13751, 13443, 13134, 12825, 12517, 12208, 11900, 11592, 11284,
       10977, 10671, 10365, 10060, 9756, 9453, 9152, 8851, 8552, 8254, 7958, 7663, 7370, 7078,
       6789, 6502, 6216, 5933, 5652, 5373, 5097, 4823, 4552, 4284, 4018, 3755, 3496, 3239,
       2985, 2735, 2488, 2244, 2004, 1768, 1535, 1305, 1080, 858, 641, 427, 218, 12,
       -189, -386, -578, -766, -949, -1128, -1302, -1471, -1636, -1796, -1951, -2101, -2245, -2385,
       -2520, -2649, -2774, -2893, -3006, -3114, -3217, -3314, -3406, -3493, -3573, -3648, -3718, -3781,
       -3839, -3891, -3938, -3978, -4013, -4042, -4065, -4082, -4093, -4098, -4098, -4091, -4078, -4059,
       -4035, -4004, -3967, -3924, -3876, -3821, -3760, -3693, -3620, -3542, -3457, -3366, -3269, -3167,
       -3058, -2943, -2823, -2697, -2565, -2427, -2283, -2133, -1978, -1817, -1651, -1478, -1301, -1117,
       -928, -734, -534, -329, -118, 97, 319, 545, 776, 1013, 1254, 1500, 1752, 2008,
       2269, 2534, 2805, 3079, 3359, 3643, 3931, 4223, 4520, 4821, 5126, 5435, 5748, 6064,
       6385, 6709, 7037, 7368, 7703, 8041, 8382, 8727, 9074, 9425, 9778, 10135, 10494, 10855,
       11219, 11586, 11955, 12326, 12699, 13075, 13452, 13831, 14212, 14595, 14979, 15365, 15752, 16140,
       16530, 16920, 17312, 17704, 18098, 18491, 18886, 19281, 19676, 20071, 20467, 20862, 21258, 21653,
       22048, 22443, 22837, 23231, 23624, 24016, 24408, 24798, 25188, 25576, 25963, 26348, 26733, 27115,
       27496, 27875, 28252, 28628, 29001, 29372, 29741, 30108, 30472, 30834, 31193, 31549, 31903, 32253,
       32601, 32946, 33288, 33626, 33961, 34293, 34622, 34947, 35268, 35585, 35899, 36209, 36515, 36818,
       37116, 37410, 37699, 37985, 38266, 38543, 38816, 39084, 39347, 39606, 39860, 40109, 40354, 40594,
       40828, 41058, 41283, 41503, 41718, 41928, 42132, 42332, 42526, 42715, 42898, 43077, 43249, 43417,
       43579, 43736, 43887, 44032, 44172, 44307, 44436, 44559, 44677, 44789, 44896, 44997, 45092, 45182,
       45266, 45344, 45417, 45484, 45546, 45602, 45652, 45696, 45735, 45769, 45797, 45819, 45836, 45847,
       45852, 45852, 45847, 45836, 45820, 45798, 45771, 45739, 45701, 45658, 45610, 45557, 45498, 45434,
       45366, 45292, 45213, 45129, 45040, 44947, 44849, 44746, 44638, 44525, 44408, 44287, 44161, 44030,
       43896, 43756, 43613, 43466, 43314, 43158, 42999, 42835, 42668, 42497, 42322, 42143, 41961, 41776,
       41587, 41394, 41199, 41000, 40798, 40594, 40386, 40175, 39962, 39746, 39527, 39305, 39082, 38855,
       38627, 38396, 38164, 37929, 37692, 37453, 37213, 36971, 36727, 36481, 36235, 35987, 35737, 35487,
       35235, 34982, 34729, 34474, 34219, 33963, 33707, 33450, 33192, 32934, 32676, 32418, 32160, 31902,
       31644, 31386, 31128, 30871, 30614, 30358, 30102, 29847, 29592, 29339, 29086, 28834, 28584, 28334,
       28086, 27839, 27593, 27349, 27106, 26865, 26626, 26388, 26152, 25918, 25685, 25455, 25227, 25000,
       24776, 24555, 24335, 24118, 23903, 23691, 23481, 23274, 23069, 22867, 22668, 22471, 22277, 22086,
       21898, 21713, 21531, 21352, 21176, 21003, 20833, 20667, 20503, 20343, 20186, 20032, 19882, 19735,
       19591, 19450, 19314, 19180, 19050, 18923, 18800, 18680, 18564, 18451, 18342, 18236, 18134, 18035,
       17940, 17848, 17760, 17675, 17594, 17516, 17442, 17371, 17303, 17240, 17179, 17122, 17068, 17018,
       16971, 16928, 16887, 16850, 16817, 16786, 16759, 16735, 16714, 16696, 16681, 16669, 16660, 16654,
       16651, 16651, 16654, 16660, 16668, 16679, 16692, 16708, 16727, 16748, 16771, 16797, 16825, 16856,
       16888, 16923, 16960, 16999, 17039, 17082, 17126, 17173, 17220, 17270, 17321, 17373, 17427, 17482,
       17539, 17596, 17655, 17715, 17776, 17837, 17899, 17963, 18026, 18091, 18155, 18221, 18286, 18352,
       18418, 18484, 18550, 18616, 18682, 18747, 18813, 18878, 18942, 19006, 19069, 19131, 19193, 19254,
       19313, 19372, 19429, 19486, 19541, 19594, 19646, 19697, 19745, 19792, 19838, 19881, 19923, 19962,
       19999, 20034, 20067, 20097, 20125, 20150, 20173, 20193, 20211, 20225, 20237, 20245, 20251, 20253,
       20253, 20249, 20241, 20231, 20217, 20199, 20178, 20153, 20124, 20092, 20055, 20015, 19971, 19923,
       19870, 19814, 19753, 19689, 19620, 19546, 19468, 19386, 19299, 19208, 19112, 19012, 18907, 18797,
       18682, 18563, 18439, 18310, 18176, 18038, 17894, 17746, 17592, 17434, 17270, 17101, 16928, 16749,
       16565, 16376, 16182, 15983, 15779, 15570, 15355, 15135, 14910, 14680, 14445, 14205, 13959, 13709,
       13453, 13192, 12926, 12655, 12378, 12097, 11811, 11519, 11223, 10921, 10615, 10304, 9987, 9666,
       9340, 9010, 8674, 8334, 7989, 7639, 7285, 6926, 6562, 6194, 5822, 5445, 5064, 4678,
       4289, 3895, 3497, 3095, 2689, 2279, 1865, 1447, 1025, 600, 171, -261, -697, -1136,
       -1579, -2025, -2474, -2926, -3382, -3840, -4301, -4765, -5231, -5701, -6172, -6647, -7123, -7602,
       -8083, -8567, -9052, -9539, -10028, -10519, -11011, -11505, -12001, -12497, -12996, -13495, -13995, -14496,
       -14999, -15502, -16005, -16509, -17014, -17519, -18025, -18530, -19036, -19541, -20047, -20552, -21057, -21562,
       -22066, -22569, -23071, -23573, -24074, -24574, -25072, -25570, -26066, -26560, -27053, -27544, -28034, -28521,
       -29007, -29491, -29972, -30451, -30928, -31403, -31874, -32343, -32810, -33273, -33734, -34191, -34646, -35097,
       -35545, -35989, -36430, -36867, -37301, -37731, -38157, -38579, -38997, -39411, -39820, -40226, -40627, -41023,
       -41415, -41803, -42185, -42563, -42936, -43305, -43668, -44026, -44379, -44727, -45070, -45407, -45739, -46065,
       -46386, -46702, -47012, -47316, -47614, -47907, -48194, -48474, -48749, -49018, -49281, -49538, -49789, -50033,
       -50272, -50504, -50730, -50949, -51163, -51369, -51570, -51764, -51952, -52133, -52307, -52476, -52637, -52792,
       -52941, -53083, -53218, -53347, -53469, -53585, -53694, -53796, -53892, -53981, -54063, -54139, -54209, -54271,
       -54327, -54377, -54420, -54457, -54487, -54510, -54527, -54538, -54542, -54540, -54531, -54516, -54495, -54467,
       -54433, -54393, -54347, -54295, -54236, -54172, -54102, -54025, -53943, -53855, -53761, -53661, -53555, -53444,
       -53328, -53205, -53078, -52944, -52806, -52662, -52513, -52359, -52200, -52035, -51866, -51692, -51513, -51329,
       -51141, -50948, -50751, -50549, -50343, -50132, -49917, -49699, -49476, -49249, -49018, -48784, -48546, -48304,
       -48059, -47810, -47559, -47303, -47045, -46784, -46519, -46252, -45982, -45709, -45434, -45156, -44876, -44593,
       -44308, -44021, -43733, -43442, -43149, -42855, -42559, -42261, -41962, -41661, -41360, -41057, -40753, -40448,
       -40143, -39836, -39529, -39222, -38913, -38605, -38296, -37987, -37678, -37369, -37060, -36751, -36443, -36135,
       -35827, -35520, -35214, -34908, -34603, -34299, -33997, -33695, -33394, -33095, -32797, -32501, -32206, -31913,
       -31621, -31331, -31043, -30757, -30473, -30191, -29912, -29634, -29359, -29087, -28816, -28549, -28284, -28021,
       -27762, -27505, -27251, -27000, -26752, -26507, -26265, -26027, -25791, -25559, -25330, -25105, -24883, -24665,
       -24450, -24239, -24031, -23828, -23627, -23431, -23238, -23050, -22865, -22684, -22507, -22334, -22165, -22000,
       -21839, -21683, -21530, -21382, -21237, -21097, -20961, -20829, -20702, -20578, -20459, -20344, -20234, -20127,
       -20025, -19927, -19834, -19744, -19659, -19579, -19502, -19430, -19362, -19298, -19238, -19182, -19131, -19084,
       -19041, -19002, -18967, -18936, -18910, -18887, -18868, -18853, -18843, -18836, -18832, -18833, -18838, -18846,
       -18858, -18873, -18892, -18915, -18941, -18971, -19004, -19041, -19081, -19124, -19170, -19220, -19273, -19328,
       -19387, -19449, -19513, -19581, -19651, -19724, -19799, -19877, -19957, -20040, -20126, -20213, -20303, -20395,
       -20489, -20585, -20683, -20783, -20884, -20988, -21093, -21199, -21307, -21416, -21527, -21639, -21752, -21866,
       -21982, -22098, -22215, -22333, -22451, -22570, -22690, -22810, -22931, -23051, -23172, -23293, -23415, -23536,
       -23657, -23777, -23898, -24018, -24138, -24257, -24375, -24493, -24610, -24726, -24842, -24956, -25069, -25181,
       -25292, -25402, -25510, -25616, -25722, -25825, -25927, -26027, -26125, -26221, -26315, -26408, -26498, -26585,
       -26671, -26754, -26835, -26913, -26989, -27063, -27133, -27201, -27266, -27328, -27388, -27444, -27497, -27548,
       -27595, -27639, -27680, -27717, -27751, -27782, -27809, -27833, -27854, -27870, -27884, -27893, -27899, -27901,
       -27900, -27894, -27885, -27872, -27855, -27834, -27810, -27781, -27748, -27711, -27671, -27626, -27577, -27524,
       -27467, -27406, -27341, -27271, -27198, -27120, -27038, -26952, -26862, -26767, -26669, -26566, -26459, -26349,
       -26233, -26114, -25991, -25863, -25732, -25596, -25457, -25313, -25165, -25013, -24858, -24698, -24534, -24367,
       -24196, -24020, -23841, -23659, -23472, -23282, -23088, -22891, -22690, -22485, -22277, -22066, -21851, -21633,
       -21411, -21186, -20958, -20727, -20493, -20256, -20016, -19773, -19527, -19279, -19027, -18773, -18517, -18258,
       -17996, -17732, -17466, -17197, -16927, -16654, -16379, -16103, -15824, -15544, -15262, -14978, -14692, -14406,
       -14118, -13828, -13537, -13245, -12952, -12659, -12364, -12068, -11772, -11475, -11177, -10879, -10581, -10282,
       -9983, -9684, -9385, -9086, -8787, -8489, -8190, -7893, -7595, -7299, -7003, -6707, -6413, -6120,
       -5827, -5536, -5246, -4958, -4671, -4385, -4101, -3819, -3538, -3259, -2983, -2708, -2435, -2165,
       -1897, -1632, -1368, -1108, -850, -595, -342, -93, 154, 397, 637, 875, 1108, 1339,
       1566, 1789, 2009, 2225, 2437, 2646, 2851, 3051, 3248, 3441, 3629, 3813, 3993, 4168,
       4340, 4506, 4668, 4826, 4978, 5127, 5270, 5408, 5542, 5671, 5795, 5913, 6027, 6136,
       6239, 6337, 6430, 6518, 6600, 6678, 6749, 6816, 6877, 6932, 6982, 7027, 7065, 7099,
       7127, 7149, 7166, 7177, 7182, 7182, 7176, 7164, 7147, 7124, 7095, 7061, 7021, 6975,
       6924, 6867, 6805, 6736, 6662, 6583, 6498, 6407, 6311, 6209, 6101, 5988, 5870, 5746,
       5617, 5482, 5342, 5197, 5046, 4890, 4729, 4563, 4392, 4215, 4033, 3847, 3655, 3459,
       3258, 3051, 2841, 2625, 2405, 2180, 1951, 1717, 1479, 1237, 990, 739, 485, 226,
       -37, -304, -575, -849, -1128, -1409, -1695, -1983, -2275, -2571, -2869, -3171, -3475, -3783,
       -4093, -4407, -4722, -5041, -5362, -5685, -6011, -6339, -6669, -7001, -7335, -7670, -8008, -8347,
       -8688, -9030, -9373, -9718, -10064, -10411, -10759, -11107, -11457, -11807, -12157, -12509, -12860, -13211,
       -13563, -13915, -14267, -14618, -14969, -15320, -15670, -16020, -16369, -16717, -17065, -17411, -17756, -18100,
       -18443, -18784, -19124, -19462, -19799, -20133, -20466, -20797, -21125, -21452, -21776, -22098, -22417, -22733,
       -23047, -23359, -23667, -23972, -24275, -24574, -24870, -25163, -25452, -25738, -26020, -26298, -26573, -26844,
       -27111, -27375, -27634, -27889, -28139, -28386, -28628, -28866, -29099, -29327, -29551, -29771, -29985, -30195,
       -30399, -30599, -30794, -30984, -31168, -31348, -31522, -31691, -31854, -32012, -32165, -32312, -32454, -32590,
       -32721, -32845, -32965, -33078, -33186, -33287, -33383, -33474, -33558, -33636, -33709, -33775, -33836, -33890,
       -33939, -33981, -34018, -34048, -34072, -34091, -34103, -34109, -34109, -34103, -34091, -34073, -34048, -34018,
       -33981, -33939, -33890, -33836, -33775, -33708, -33636, -33557, -33473, -33382, -33286, -33184, -33076, -32962,
       -32842, -32717, -32586, -32449, -32306, -32158, -32005, -31846, -31681, -31511, -31336, -31155, -30969, -30778,
       -30581, -30380, -30173, -29962, -29745, -29524, -29297, -29066, -28830, -28590, -28345, -28095, -27842, -27583,
       -27321, -27054, -26783, -26508, -26228, -25945, -25658, -25368, -25073, -24775, -24474, -24169, -23860, -23549,
       -23234, -22916, -22595, -22271, -21944, -21614, -21282, -20947, -20609, -20270, -19927, -19583, -19236, -18887,
       -18537, -18184, -17830, -17474, -17116, -16757, -16396, -16034, -15671, -15307, -14941, -14575, -14208, -13839,
       -13471, -13101, -12732, -12361, -11991, -11620, -11249, -10878, -10508, -10137, -9766, -9396, -9026, -8657,
       -8288, -7920, -7553, -7187, -6821, -6457, -6093, -5731, -5370, -5011, -4653, -4296, -3941, -3587,
       -3236, -2886, -2538, -2192, -1848, -1507, -1167, -830, -495, -162, 168, 495, 820, 1142,
       1462, 1779, 2093, 2404, 2712, 3017, 3319, 3617, 3913, 4205, 4494, 4780, 5062, 5341,
       5617, 5889, 6157, 6422, 6683, 6940, 7194, 7444, 7690, 7933, 8172, 8406, 8637, 8864,
       9087, 9306, 9522, 9733, 9940, 10143, 10342, 10537, 10728, 10915, 11098, 11277, 11452, 11622,
       11789, 11952, 12110, 12265, 12415, 12561, 12704, 12842, 12976, 13106, 13233, 13355, 13473, 13588,
       13698, 13805, 13908, 14006, 14102, 14193, 14281, 14365, 14445, 14521, 14595, 14664, 14730, 14792,
       14851, 14907, 14959, 15008, 15054, 15097, 15136, 15172, 15205, 15236, 15263, 15287, 15309, 15328,
       15344, 15357, 15368, 15376, 15382, 15386, 15387, 15385, 15382, 15376, 15369, 15359, 15348, 15334,
       15319, 15302, 15284, 15264, 15242, 15219, 15195, 15169, 15143, 15115, 15086, 15056, 15025, 14994,
       14961, 14928, 14895, 14861, 14826, 14792, 14757, 14722, 14686, 14651, 14616, 14581, 14546, 14512,
       14478, 14444, 14411, 14379, 14347, 14317, 14287, 14258, 14230, 14203, 14177, 14153, 14130, 14108,
       14088, 14069, 14052, 14037, 14023, 14012, 14002, 13994, 13989, 13985, 13984, 13985, 13988, 13994,
       14002, 14013, 14027, 14043, 14061, 14083, 14107, 14135, 14165, 14198, 14235, 14274, 14317, 14363,
       14412, 14465, 14520, 14580, 14643, 14709, 14779, 14852, 14929, 15010, 15095, 15183, 15275, 15371,
       15471, 15574, 15682, 15793, 15909, 16028, 16151, 16279, 16410, 16546, 16685, 16829, 16976, 17128,
       17284, 17444, 17609, 17777, 17950, 18126, 18307, 18492, 18681, 18874, 19072, 19273, 19479, 19689,
       19902, 20120, 20342, 20568, 20798, 21032, 21270, 21512, 21757, 22007, 22261, 22518, 22779, 23044,
       23313, 23585, 23861, 24140, 24423, 24710, 25000, 25294, 25591, 25891, 26195, 26501, 26811, 27124,
       27440, 27760, 28082, 28407, 28734, 29065, 29398, 29734, 30072, 30413, 30756, 31102, 31450, 31800,
       32152, 32507, 32863, 33221, 33581, 33943, 34306, 34671, 35038, 35406, 35775, 36146, 36517, 36890,
       37264, 37638, 38014, 38390, 38767, 39144, 39522, 39900, 40278, 40657, 41035, 41414, 41792, 42171,
       42549, 42926, 43303, 43680, 44055, 44430, 44805, 45178, 45550, 45921, 46290, 46659, 47025, 47391,
       47754, 48116, 48476, 48834, 49190, 49544, 49896, 50245, 50592, 50936, 51278, 51617, 51953, 52287,
       52617, 52944, 53268, 53589, 53907, 54221, 54531, 54838, 55142, 55441, 55736, 56028, 56316, 56599,
       56878, 57153, 57424, 57690, 57951, 58208, 58460, 58708, 58951, 59188, 59421, 59649, 59871, 60089,
       60301, 60508, 60709, 60905, 61096, 61281, 61460, 61633, 61801, 61963, 62120, 62270, 62414, 62553,
       62685, 62811, 62931, 63045, 63153, 63254, 63350, 63438, 63521, 63597, 63667, 63730, 63786, 63837,
       63880, 63917, 63948, 63972, 63989, 64000, 64004, 64001, 63992, 63976, 63954, 63924, 63888, 63846,
       63796, 63740, 63678, 63608, 63532, 63450, 63360, 63264, 63162, 63053, 62937, 62815, 62686, 62551,
       62409, 62261, 62106, 61945, 61777, 61604, 61423, 61237, 61045, 60846, 60641, 60430, 60213, 59990,
       59761, 59526, 59285, 59039, 58787, 58529, 58265, 57996, 57722, 57442, 57156, 56865, 56569, 56268,
       55962, 55651, 55335, 55014, 54688, 54357, 54022, 53682, 53337, 52989, 52635, 52278, 51916, 51551,
       51181, 50807, 50430, 50049, 49664, 49276, 48884, 48489, 48090, 47689, 47284, 46876, 46466, 46052,
       45636, 45217, 44796, 44372, 43946, 43518, 43088, 42655, 42221, 41785, 41347, 40908, 40467, 40025,
       39581, 39137, 38691, 38244, 37796, 37348, 36898, 36449, 35998, 35548, 35097, 34646, 34195, 33744,
       33293, 32842, 32391, 31941, 31492, 31043, 30595, 30148, 29702, 29257, 28812, 28370, 27928, 27488,
       27049, 26612, 26177, 25743, 25312, 24882, 24454, 24029, 23606, 23185, 22766, 22350, 21937, 21526,
       21118, 20713, 20311, 19912, 19516, 19123, 18733, 18346, 17963, 17583, 17207, 16835, 16466, 16100,
       15739, 15381, 15027, 14677, 14332, 13990, 13652, 13319, 12990, 12665, 12344, 12028, 11717, 11409,
       11107, 10809, 10515, 10226, 9942, 9663, 9388, 9118, 8853, 8593, 8337, 8087, 7841, 7601,
       7365, 7134, 6909, 6688, 6473, 6262, 6056, 5856, 5661, 5470, 5285, 5105, 4930, 4760,
       4595, 4436, 4281, 4131, 3986, 3847, 3712, 3583, 3458, 3339, 3224, 3114, 3009, 2910,
       2815, 2724, 2639, 2558, 2482, 2411, 2344, 2283, 2225, 2172, 2124, 2080, 2041, 2006,
       1975, 1949, 1927, 1909, 1895, 1885, 1879, 1878, 1880, 1886, 1895, 1909, 1926, 1947,
       1971, 1999, 2030, 2064, 2102, 2143, 2187, 2234, 2284, 2337, 2393, 2452, 2513, 2577,
       2644, 2713, 2784, 2858, 2934, 3012, 3092, 3174, 3258, 3344, 3432, 3521, 3612, 3704,
       3798, 3893, 3989, 4086, 4185, 4284, 4385, 4486, 4588, 4691, 4794, 4898, 5002, 5106,
       5211, 5315, 5420, 5525, 5630, 5734, 5838, 5942, 6046, 6149, 6251, 6353, 6454, 6554,
       6653, 6751, 6848, 6944, 7038, 7132, 7224, 7314, 7403, 7491, 7576, 7660, 7742, 7823,
       7901, 7977, 8051, 8123, 8193, 8260, 8326, 8388, 8448, 8506, 8561, 8614, 8663, 8710,
       8755, 8796, 8834, 8870, 8902, 8931, 8958, 8981, 9001, 9017, 9031, 9041, 9047, 9051,
       9050, 9047, 9040, 9029, 9015, 8997, 8976, 8951, 8922, 8890, 8854, 8814, 8771, 8724,
       8673, 8618, 8560, 8497, 8431, 8362, 8288, 8211, 8129, 8044, 7956, 7863, 7767, 7666,
       7562, 7455, 7343, 7228, 7109, 6986, 6860, 6730, 6597, 6459, 6319, 6174, 6026, 5875,
       5720, 5562, 5400, 5235, 5066, 4894, 4719, 4541, 4359, 4175, 3987, 3796, 3603, 3406,
       3206, 3004, 2799, 2591, 2380, 2167, 1951, 1733, 1512, 1289, 1063, 835, 605, 373,
       139, -97, -335, -575, -817, -1060, -1305, -1552, -1800, -2050, -2301, -2553, -2806, -3061,
       -3317, -3573, -3831, -4089, -4348, -4607, -4867, -5128, -5389, -5650, -5912, -6174, -6435, -6697,
       -6959, -7220, -7481, -7742, -8002, -8262, -8521, -8780, -9037, -9294, -9550, -9805, -10058, -10311,
       -10562, -10812, -11060, -11307, -11552, -11795, -12037, -12276, -12514, -12750, -12983, -13214, -13443, -13670,
       -13894, -14116, -14335, -14551, -14764, -14975, -15183, -15388, -15589, -15788, -15983, -16175, -16364, -16549,
       -16731, -16909, -17084, -17255, -17422, -17585, -17745, -17900, -18052, -18199, -18343, -18482, -18617, -18747,
       -18874, -18996, -19113, -19226, -19335, -19439, -19538, -19633, -19723, -19808, -19889, -19964, -20035, -20101,
       -20162, -20218, -20269, -20315, -20356, -20392, -20423, -20449, -20470, -20485, -20496, -20501, -20501, -20496,
       -20486, -20470, -20449, -20423, -20392, -20356, -20314, -20267, -20215, -20158, -20096, -20028, -19955, -19877,
       -19794, -19706, -19612, -19514, -19410, -19302, -19188, -19069, -18945, -18817, -18683, -18545, -18401, -18253,
       -18100, -17943, -17780, -17613, -17442, -17265, -17085, -16899, -16710, -16516, -16317, -16115, -15908, -15697,
       -15482, -15263, -15040, -14813, -14582, -14347, -14109, -13867, -13622, -13372, -13120, -12864, -12605, -12343,
       -12077, -11809, -11537, -11263, -10986, -10706, -10423, -10138, -9851, -9561, -9268, -8974, -8677, -8378,
       -8078, -7775, -7471, -7165, -6858, -6549, -6239, -5927, -5614, -5300, -4985, -4669, -4353, -4035,
       -3717, -3399, -3080, -2761, -2441, -2122, -1802, -1483, -1164, -845, -526, -208, 110, 427,
       743, 1058, 1372, 1685, 1997, 2307, 2617, 2924, 3230, 3535, 3837, 4138, 4437, 4733,
       5028, 5320, 5610, 5897, 6182, 6464, 6744, 7020, 7294, 7565, 7832, 8096, 8357, 8615,
       8869, 9120, 9367, 9610, 9850, 10085, 10317, 10545, 10768, 10988, 11203, 11413, 11619, 11821,
       12018, 12211, 12399, 12582, 12760, 12934, 13102, 13265, 13424, 13577, 13725, 13867, 14005, 14137,
       14263, 14385, 14500, 14610, 14715, 14813, 14906, 14994, 15075, 15151, 15221, 15285, 15343, 15395,
       15442, 15482, 15516, 15544, 15566, 15582, 15592, 15596, 15594, 15585, 15571, 15550, 15523, 15490,
       15451, 15405, 15353, 15295, 15231, 15161, 15085, 15002, 14913, 14819, 14718, 14610, 14497, 14378,
       14253, 14121, 13984, 13841, 13692, 13536, 13375, 13208, 13036, 12857, 12673, 12483, 12287, 12086,
       11879, 11667, 11449, 11226, 10997, 10763, 10524, 10279, 10029, 9775, 9515, 9250, 8980, 8706,
       8426, 8142, 7853, 7560, 7262, 6960, 6653, 6342, 6026, 5707, 5384, 5056, 4725, 4389,
       4050, 3707, 3361, 3011, 2658, 2301, 1942, 1579, 1213, 843, 471, 97, -281, -661,
       -1044, -1429, -1816, -2206, -2597, -2991, -3387, -3785, -4184, -4585, -4988, -5392, -5798, -6205,
       -6613, -7022, -7432, -7843, -8255, -8667, -9080, -9494, -9908, -10322, -10736, -11151, -11565, -11980,
       -12394, -12808, -13222, -13635, -14047, -14459, -14870, -15280, -15689, -16098, -16505, -16910, -17315, -17718,
       -18119, -18519, -18917, -19314, -19708, -20101, -20492, -20880, -21266, -21650, -22032, -22411, -22787, -23161,
       -23532, -23901, -24266, -24629, -24989, -25345, -25699, -26049, -26396, -26739, -27079, -27416, -27749, -28078,
       -28404, -28726, -29044, -29359, -29669, -29976, -30278, -30577, -30871, -31161, -31447, -31728, -32006, -32279,
       -32547, -32811, -33071, -33326, -33577, -33823, -34064, -34301, -34533, -34761, -34983, -35201, -35414, -35623,
       -35826, -36025, -36219, -36408, -36593, -36772, -36946, -37116, -37281, -37440, -37595, -37745, -37890, -38031,
       -38166, -38296, -38422, -38543, -38658, -38769, -38875, -38977, -39073, -39165, -39252, -39334, -39412, -39485,
       -39553, -39616, -39675, -39730, -39780, -39825, -39866, -39902, -39934, -39962, -39986, -40005, -40020, -40030,
       -40037, -40040, -40038, -40033, -40023, -40010, -39993, -39972, -39947, -39919, -39887, -39852, -39813, -39771,
       -39725, -39676, -39624, -39569, -39510, -39449, -39385, -39317, -39247, -39175, -39099, -39021, -38941, -38858,
       -38772, -38685, -38595, -38503, -38409, -38313, -38215, -38115, -38013, -37910, -37805, -37699, -37591, -37482,
       -37372, -37260, -37147, -37033, -36919, -36803, -36687, -36570, -36452, -36334, -36215, -36096, -35977, -35857,
       -35737, -35617, -35498, -35378, -35259, -35139, -35021, -34902, -34784, -34667, -34550, -34434, -34319, -34205,
       -34091, -33979, -33868, -33758, -33649, -33542, -33436, -33331, -33228, -33127, -33027, -32929, -32833, -32738,
       -32646, -32556, -32467, -32381, -32297, -32215, -32136, -32059, -31984, -31912, -31842, -31775, -31710, -31649,
       -31589, -31533, -31479, -31429, -31381, -31336, -31294, -31255, -31220, -31187, -31157, -31131, -31108, -31088,
       -31071, -31058, -31048, -31041, -31037, -31037, -31041, -31047, -31058, -31071, -31088, -31109, -31133, -31161,
       -31192, -31226, -31264, -31306, -31351, -31400, -31452, -31507, -31566, -31629, -31695, -31765, -31838, -31914,
       -31994, -32078, -32164, -32255, -32348, -32445, -32545, -32649, -32755, -32865, -32978, -33095, -33214, -33336,
       -33462, -33591, -33722, -33857, -33994, -34134, -34278, -34423, -34572, -34723, -34877, -35033, -35192, -35354,
       -35517, -35684, -35852, -36023, -36195, -36370, -36547, -36726, -36907, -37089, -37274, -37460, -37647, -37837,
       -38027, -38219, -38413, -38608, -38804, -39001, -39199, -39398, -39598, -39798, -40000, -40202, -40404, -40607,
       -40811, -41015, -41219, -41423, -41627, -41831, -42035, -42239, -42442, -42645, -42848, -43050, -43251, -43452,
       -43652, -43851, -44048, -44245, -44441, -44635, -44828, -45020, -45210, -45398, -45585, -45769, -45952, -46133,
       -46312, -46489, -46663, -46835, -47005, -47172, -47336, -47498, -47657, -47813, -47966, -48116, -48263, -48407,
       -48548, -48685, -48819, -48949, -49075, -49198, -49317, -49433, -49544, -49652, -49755, -49854, -49949, -50040,
       -50126, -50208, -50285, -50358, -50427, -50490, -50549, -50603, -50652, -50696, -50735, -50769, -50798, -50822,
       -50841, -50854, -50862, -50864, -50862, -50853, -50839, -50820, -50795, -50764, -50728, -50686, -50638, -50585,
       -50525, -50460, -50389, -50312, -50229, -50140, -50045, -49944, -49837, -49724, -49605, -49480, -49348, -49211,
       -49068, -48918, -48762, -48600, -48432, -48258, -48078, -47892, -47699, -47500, -47296, -47085, -46868, -46645,
       -46416, -46180, -45939, -45692, -45439, -45180, -44914, -44643, -44367, -44084, -43795, -43501, -43201, -42895,
       -42583, -42266, -41943, -41615, -41281, -40942, -40597, -40247, -39892, -39531, -39166, -38795, -38419, -38038,
       -37652, -37261, -36865, -36464, -36059, -35649, -35235, -34816, -34393, -33965, -33533, -33097, -32656, -32212,
       -31764, -31312, -30856, -30396, -29932, -29466, -28995, -28521, -28044, -27564, -27081, -26594, -26105, -25613,
       -25118, -24621, -24120, -23618, -23113, -22606, -22097, -21585, -21072, -20557, -20040, -19521, -19001, -18479,
       -17956, -17432, -16907, -16380, -15853, -15325, -14796, -14266, -13736, -13205, -12674, -12143, -11612, -11081,
       -10550, -10019, -9489, -8958, -8429, -7900, -7372, -6844, -6318, -5792, -5268, -4745, -4223, -3703,
       -3184, -2667, -2152, -1639, -1127, -618, -110, 395, 897, 1397, 1895, 2390, 2883, 3372,
       3859, 4342, 4823, 5300, 5774, 6245, 6713, 7176, 7637, 8093, 8546, 8995, 9440, 9881,
       10318, 10750, 11179, 11603, 12023, 12438, 12849, 13255, 13657, 14054, 14446, 14833, 15215, 15593,
       15965, 16332, 16695, 17052, 17403, 17750, 18091, 18427, 18757, 19082, 19402, 19715, 20024, 20326,
       20623, 20915, 21200, 21480, 21754, 22023, 22285, 22542, 22792, 23037, 23276, 23509, 23736, 23957,
       24173, 24382, 24585, 24782, 24974, 25159, 25338, 25512, 25679, 25840, 25996, 26145, 26289, 26426,
       26558, 26684, 26803, 26917, 27026, 27128, 27224, 27315, 27400, 27479, 27553, 27621, 27683, 27740,
       27791, 27837, 27877, 27912, 27941, 27965, 27984, 27997, 28006, 28009, 28007, 28000, 27988, 27971,
       27949, 27923, 27891, 27855, 27815, 27770, 27720, 27666, 27607, 27544, 27477, 27406, 27331, 27251,
       27168, 27081, 26990, 26896, 26797, 26695, 26590, 26481, 26369, 26254, 26136, 26014, 25890, 25762,
       25632, 25499, 25364, 25225, 25085, 24942, 24796, 24649, 24499, 24347, 24194, 24038, 23881, 23722,
       23562, 23399, 23236, 23071, 22905, 22738, 22570, 22401, 22231, 22060, 21889, 21717, 21544, 21371,
       21198, 21024, 20851, 20677, 20503, 20330, 20156, 19983, 19811, 19638, 19467, 19296, 19125, 18956,
       18787, 18620, 18453, 18287, 18123, 17960, 17799, 17638, 17480, 17323, 17167, 17014, 16862, 16712,
       16564, 16418, 16274, 16132, 15993, 15856, 15721, 15589, 15459, 15331, 15207, 15085, 14965, 14849,
       14735, 14624, 14516, 14411, 14310, 14211, 14115, 14023, 13933, 13847, 13765, 13685, 13609, 13537,
       13468, 13402, 13340, 13281, 13226, 13175, 13127, 13083, 13042, 13005, 12972, 12943, 12917, 12895,
       12877, 12863, 12852, 12845, 12842, 12843, 12848, 12856, 12868, 12884, 12904, 12927, 12955, 12986,
       13021, 13060, 13102, 13148, 13198, 13251, 13309, 13369, 13434, 13502, 13574, 13649, 13727, 13810,
       13895, 13984, 14077, 14173, 14272, 14374, 14480, 14589, 14701, 14816, 14934, 15055, 15180, 15307,
       15437, 15569, 15705, 15843, 15984, 16127, 16273, 16422, 16573, 16726, 16882, 17039, 17199, 17361,
       17526, 17692, 17860, 18029, 18201, 18374, 18549, 18725, 18903, 19083, 19263, 19445, 19628, 19812,
       19997, 20184, 20371, 20558, 20747, 20936, 21126, 21316, 21506, 21697, 21888, 22079, 22271, 22462,
       22653, 22844, 23035, 23225, 23416, 23605, 23794, 23982, 24170, 24356, 24542, 24727, 24911, 25093,
       25274, 25454, 25633, 25810, 25986, 26160, 26332, 26502, 26671, 26837, 27002, 27165, 27325, 27483,
       27639, 27792, 27943, 28091, 28237, 28380, 28520, 28658, 28792, 28924, 29052, 29178, 29300, 29419,
       29535, 29648, 29757, 29863, 29965, 30063, 30158, 30250, 30337, 30421, 30501, 30577, 30649, 30718,
       30782, 30842, 30898, 30950, 30997, 31041, 31080, 31115, 31145, 31171, 31193, 31211, 31223, 31232,
       31236, 31235, 31230, 31220, 31206, 31187, 31163, 31135, 31102, 31065, 31023, 30976, 30924, 30868,
       30807, 30742, 30671, 30597, 30517, 30433, 30344, 30250, 30152, 30049, 29941, 29829, 29712, 29591,
       29465, 29335, 29200, 29060, 28917, 28768, 28616, 28459, 28297, 28132, 27962, 27788, 27609, 27427,
       27240, 27050, 26855, 26657, 26454, 26248, 26038, 25824, 25606, 25385, 25160, 24932, 24700, 24465,
       24227, 23985, 23740, 23492, 23240, 22986, 22729, 22469, 22206, 21940, 21672, 21401, 21128, 20852,
       20574, 20293, 20011, 19726, 19439, 19151, 18860, 18568, 18274, 17979, 17682, 17383, 17083, 16782,
       16480, 16177, 15873, 15568, 15262, 14955, 14648, 14340, 14032, 13724, 13415, 13107, 12798, 12489,
       12181, 11872, 11564, 11257, 10950, 10644, 10338, 10033, 9729, 9427, 9125, 8825, 8525, 8228,
       7931, 7637, 7344, 7053, 6763, 6476, 6191, 5908, 5627, 5349, 5073, 4799, 4528, 4260,
       3995, 3732, 3473, 3216, 2963, 2713, 2466, 2223, 1983, 1747, 1514, 1285, 1060, 839,
       622, 408, 199, -6, -206, -403, -595, -782, -965, -1144, -1317, -1486, -1650, -1810,
       -1964, -2114, -2258, -2397, -2532, -2661, -2784, -2903, -3016, -3124, -3226, -3323, -3414, -3500,
       -3580, -3655, -3724, -3787, -3844, -3896, -3942, -3982, -4016, -4044, -4067, -4083, -4094, -4099,
       -4097, -4090, -4077, -4057, -4032, -4001, -3964, -3920, -3871, -3816, -3754, -3687, -3614, -3534,
       -3449, -3358, -3260, -3157, -3048, -2933, -2812, -2685, -2553, -2414, -2270, -2120, -1964, -1803,
       -1636, -1463, -1284, -1101, -911, -716, -516, -310, -99, 117, 338, 565, 797, 1034,
       1276, 1522, 1774, 2031, 2292, 2558, 2829, 3104, 3384, 3668, 3957, 4250, 4547, 4848,
       5153, 5462, 5776, 6093, 6414, 6738, 7066, 7398, 7733, 8071, 8413, 8757, 9105, 9456,
       9810, 10166, 10526, 10887, 11252, 11619, 11988, 12359, 12733, 13108, 13486, 13865, 14246, 14629,
       15014, 15399, 15787, 16175, 16565, 16955, 17347, 17739, 18132, 18526, 18921, 19316, 19711, 20106,
       20502, 20897, 21293, 21688, 22083, 22478, 22872, 23266, 23659, 24051, 24443, 24833, 25222, 25610,
       25997, 26383, 26767, 27149, 27530, 27909, 28286, 28661, 29034, 29405, 29774, 30140, 30504, 30866,
       31224, 31581, 31934, 32284, 32632, 32977, 33318, 33656, 33991, 34323, 34651, 34975, 35296, 35613,
       35927, 36237, 36542, 36844, 37142, 37436, 37725, 38010, 38291, 38568, 38840, 39107, 39370, 39628,
       39882, 40131, 40375, 40615, 40849, 41079, 41303, 41523, 41737, 41946, 42150, 42349, 42543, 42731,
       42914, 43092, 43265, 43432, 43593, 43749, 43900, 44045, 44185, 44319, 44447, 44570, 44687, 44799,
       44905, 45006, 45100, 45190, 45273, 45351, 45423, 45490, 45551, 45606, 45656, 45700, 45739, 45772,
       45799, 45821, 45837, 45847, 45852, 45852, 45846, 45835, 45818, 45796, 45768, 45736, 45697, 45654,
       45605, 45552, 45493, 45428, 45359, 45285, 45206, 45121, 45032, 44938, 44840, 44736, 44628, 44515,
       44398, 44276, 44149, 44019, 43883, 43744, 43600, 43452, 43300, 43144, 42984, 42820, 42653, 42481,
       42306, 42127, 41945, 41759, 41570, 41377, 41181, 40982, 40780, 40575, 40367, 40156, 39943, 39726,
       39507, 39286, 39062, 38835, 38607, 38376, 38143, 37908, 37671, 37432, 37191, 36949, 36705, 36460,
       36213, 35965, 35715, 35464, 35213, 34960, 34706, 34451, 34196, 33940, 33684, 33427, 33169, 32912,
       32654, 32395, 32137, 31879, 31621, 31363, 31105, 30848, 30591, 30335, 30079, 29824, 29570, 29316,
       29064, 28812, 28562, 28312, 28064, 27817, 27572, 27327, 27085, 26844, 26604, 26367, 26131, 25897,
       25665, 25435, 25206, 24980, 24757, 24535, 24316, 24099, 23884, 23672, 23462, 23255, 23051, 22849,
       22650, 22454, 22260, 22070, 21882, 21697, 21515, 21336, 21161, 20988, 20818, 20652, 20489, 20329,
       20172, 20019, 19868, 19722, 19578, 19438, 19302, 19168, 19038, 18912, 18789, 18670, 18554, 18441,
       18332, 18227, 18125, 18026, 17931, 17840, 17752, 17668, 17587, 17509, 17435, 17365, 17298, 17234,
       17174, 17117, 17064, 17014, 16967, 16924, 16884, 16847, 16814, 16784, 16757, 16733, 16712, 16694,
       16680, 16668, 16660, 16654, 16651, 16651, 16654, 16660, 16669, 16680, 16693, 16710, 16729, 16750,
       16774, 16800, 16828, 16859, 16891, 16926, 16963, 17002, 17043, 17086, 17131, 17177, 17225, 17274,
       17325, 17378, 17432, 17487, 17544, 17602, 17660, 17720, 17781, 17843, 17905, 17968, 18032, 18096,
       18161, 18226, 18292, 18358, 18424, 18490, 18556, 18622, 18688, 18753, 18819, 18883, 18948, 19011,
       19074, 19137, 19198, 19259, 19319, 19377, 19434, 19491, 19545, 19599, 19651, 19701, 19750, 19797,
       19842, 19885, 19926, 19965, 20002, 20037, 20070, 20100, 20127, 20153, 20175, 20195, 20212, 20226,
       20238, 20246, 20251, 20254, 20253, 20248, 20241, 20230, 20215, 20197, 20176, 20150, 20121, 20088,
       20052, 20011, 19967, 19918, 19866, 19809, 19748, 19683, 19613, 19539, 19461, 19378, 19291, 19200,
       19103, 19003, 18897, 18787, 18672, 18552, 18428, 18298, 18164, 18025, 17881, 17732, 17578, 17419,
       17255, 17086, 16912, 16733, 16549, 16359, 16165, 15965, 15761, 15551, 15336, 15115, 14890, 14660,
       14424, 14183, 13937, 13686, 13430, 13168, 12902, 12630, 12354, 12072, 11785, 11493, 11196, 10894,
       10588, 10276, 9959, 9638, 9311, 8980, 8644, 8303, 7958, 7608, 7253, 6894, 6530, 6161,
       5788, 5411, 5030, 4644, 4254, 3860, 3461, 3059, 2652, 2242, 1828, 1410, 988, 562,
       133, -300, -736, -1176, -1618, -2065, -2514, -2967, -3422, -3881, -4342, -4806, -5273, -5742,
       -6214, -6689, -7166, -7645, -8126, -8610, -9095, -9582, -10072, -10562, -11055, -11549, -12045, -12542,
       -13040, -13539, -14040, -14541, -15043, -15546, -16050, -16554, -17059, -17564, -18070, -18575, -19081, -19586,
       -20092, -20597, -21102, -21606, -22110, -22614, -23116, -23618, -24118, -24618, -25117, -25614, -26110, -26604,
       -27097, -27588, -28077, -28565, -29050, -29534, -30015, -30494, -30970, -31445, -31916, -32385, -32851, -33314,
       -33775, -34232, -34686, -35137, -35584, -36029, -36469, -36906, -37339, -37769, -38194, -38616, -39034, -39447,
       -39857, -40261, -40662, -41058, -41450, -41837, -42219, -42597, -42969, -43337, -43700, -44058, -44410, -44758,
       -45100, -45437, -45768, -46094, -46415, -46730, -47039, -47343, -47640, -47932, -48219, -48499, -48773, -49042,
       -49304, -49561, -49811, -50055, -50293, -50524, -50750, -50969, -51181, -51388, -51587, -51781, -51968, -52149,
       -52323, -52490, -52651, -52806, -52954, -53095, -53230, -53358, -53480, -53595, -53703, -53805, -53900, -53988,
       -54070, -54146, -54214, -54277, -54332, -54381, -54424, -54460, -54489, -54512, -54528, -54538, -54542, -54539,
       -54530, -54514, -54493, -54464, -54430, -54390, -54343, -54290, -54231, -54166, -54095, -54018, -53935, -53846,
       -53752, -53652, -53546, -53434, -53317, -53194, -53066, -52932, -52793, -52649, -52500, -52345, -52185, -52021,
       -51851, -51676, -51497, -51313, -51124, -50931, -50733, -50531, -50324, -50113, -49898, -49679, -49456, -49229,
       -48998, -48763, -48525, -48283, -48037, -47788, -47536, -47281, -47022, -46760, -46496, -46228, -45958, -45685,
       -45409, -45131, -44851, -44568, -44283, -43996, -43707, -43416, -43123, -42828, -42532, -42234, -41935, -41635,
       -41333, -41030, -40726, -40421, -40116, -39809, -39502, -39194, -38886, -38578, -38269, -37960, -37651, -37342,
       -37033, -36724, -36415, -36107, -35800, -35493, -35187, -34881, -34576, -34272, -33970, -33668, -33368, -33069,
       -32771, -32474, -32180, -31887, -31595, -31305, -31018, -30732, -30448, -30166, -29887, -29610, -29335, -29062,
       -28792, -28525, -28260, -27998, -27739, -27482, -27228, -26978, -26730, -26485, -26244, -26005, -25770, -25539,
       -25310, -25085, -24864, -24646, -24431, -24220, -24013, -23810, -23610, -23414, -23222, -23033, -22849, -22668,
       -22492, -22319, -22150, -21986, -21825, -21669, -21517, -21369, -21225, -21085, -20949, -20818, -20690, -20567,
       -20449, -20334, -20224, -20118, -20016, -19919, -19826, -19737, -19652, -19572, -19495, -19423, -19356, -19292,
       -19233, -19178, -19127, -19080, -19037, -18999, -18964, -18934, -18907, -18885, -18867, -18852, -18842, -18835,
       -18832, -18833, -18838, -18847, -18859, -18875, -18894, -18917, -18944, -18974, -19008, -19044, -19085, -19128,
       -19175, -19225, -19277, -19333, -19392, -19454, -19519, -19587, -19657, -19730, -19806, -19884, -19965, -20048,
       -20133, -20221, -20311, -20403, -20497, -20594, -20692, -20792, -20893, -20997, -21102, -21209, -21317, -21426,
       -21537, -21649, -21762, -21877, -21992, -22108, -22225, -22343, -22462, -22581, -22701, -22821, -22941, -23062,
       -23183, -23304, -23425, -23546, -23667, -23788, -23909, -24029, -24148, -24267, -24386, -24504, -24621, -24737,
       -24852, -24966, -25079, -25191, -25302, -25411, -25519, -25626, -25731, -25834, -25936, -26036, -26133, -26230,
       -26324, -26416, -26505, -26593, -26679, -26762, -26842, -26920, -26996, -27069, -27139, -27207, -27272, -27334,
       -27393, -27449, -27502, -27552, -27599, -27643, -27683, -27720, -27754, -27785, -27812, -27835, -27855, -27872,
       -27885, -27894, -27899, -27901, -27899, -27894, -27884, -27871, -27853, -27832, -27807, -27778, -27745, -27708,
       -27667, -27622, -27572, -27519, -27462, -27400, -27335, -27265, -27191, -27113, -27031, -26944, -26854, -26759,
       -26660, -26557, -26450, -26338, -26223, -26103, -25980, -25852, -25720, -25584, -25444, -25300, -25152, -25000,
       -24844, -24684, -24520, -24352, -24180, -24005, -23825, -23642, -23455, -23265, -23071, -22873, -22672, -22467,
       -22258, -22047, -21832, -21613, -21391, -21166, -20938, -20707, -20472, -20235, -19995, -19751, -19505, -19256,
       -19005, -18751, -18494, -18234, -17973, -17709, -17442, -17174, -16903, -16630, -16355, -16078, -15799, -15519,
       -15236, -14953, -14667, -14380, -14092, -13802, -13511, -13219, -12926, -12632, -12337, -12042, -11745, -11448,
       -11151, -10853, -10554, -10255, -9956, -9657, -9358, -9059, -8761, -8462, -8164, -7866, -7569, -7272,
       -6976, -6681, -6387, -6094, -5801, -5510, -5221, -4932, -4645, -4360, -4076, -3794, -3513, -3235,
       -2958, -2684, -2411, -2141, -1873, -1608, -1345, -1085, -827, -572, -320, -71, 175, 419,
       659, 895, 1129, 1359, 1586, 1809, 2028, 2244, 2456, 2664, 2869, 3069, 3265, 3457,
       3645, 3829, 4009, 4184, 4355, 4521, 4682, 4839, 4992, 5139, 5282, 5420, 5554, 5682,
       5805, 5924, 6037, 6145, 6248, 6346, 6438, 6526, 6607, 6684, 6755, 6821, 6882, 6937,
       6986, 7030, 7069, 7102, 7129, 7151, 7167, 7177, 7182, 7181, 7175, 7163, 7145, 7122,
       7093, 7058, 7017, 6971, 6919, 6862, 6799, 6730, 6656, 6575, 6490, 6399, 6302, 6199,
       6092, 5978, 5859, 5735, 5605, 5470, 5330, 5184, 5033, 4876, 4715, 4548, 4376, 4199,
       4017, 3830, 3638, 3441, 3239, 3033, 2822, 2606, 2385, 2160, 1930, 1696, 1458, 1215,
       968, 717, 462, 202, -61, -328, -599, -874, -1152, -1434, -1720, -2009, -2301, -2597,
       -2896, -3198, -3503, -3810, -4121, -4435, -4751, -5069, -5391, -5714, -6040, -6368, -6698, -7030,
       -7364, -7700, -8038, -8377, -8718, -9060, -9404, -9749, -10095, -10442, -10790, -11138, -11488, -11838,
       -12189, -12540, -12891, -13243, -13594, -13946, -14298, -14649, -15000, -15351, -15701, -16051, -16400, -16748,
       -17095, -17442, -17787, -18131, -18473, -18814, -19154, -19492, -19828, -20163, -20495, -20826, -21154, -21481,
       -21805, -22126, -22445, -22761, -23075, -23386, -23694, -23999, -24301, -24600, -24896, -25188, -25477, -25763,
       -26045, -26323, -26597, -26868, -27135, -27398, -27656, -27911, -28161, -28407, -28649, -28886, -29119, -29347,
       -29571, -29790, -30004, -30213, -30417, -30617, -30811, -31000, -31185, -31363, -31537, -31706, -31869, -32026,
       -32178, -32325, -32466, -32602, -32732, -32856, -32975, -33088, -33195, -33296, -33392, -33481, -33565, -33643,
       -33715, -33781, -33841, -33895, -33943, -33985, -34021, -34051, -34074, -34092, -34104, -34109, -34109, -34102,
       -34089, -34071, -34046, -34015, -33978, -33935, -33886, -33831, -33769, -33702, -33629, -33550, -33465, -33374,
       -33277, -33174, -33066, -32951, -32831, -32705, -32574, -32436, -32294, -32145, -31991, -31831, -31666, -31496,
       -31320, -31139, -30952, -30761, -30564, -30362, -30155, -29943, -29726, -29504, -29277, -29045, -28809, -28568,
       -28323, -28073, -27819, -27560, -27297, -27030, -26758, -26483, -26203, -25920, -25633, -25342, -25047, -24749,
       -24447, -24142, -23833, -23521, -23206, -22888, -22566, -22242, -21915, -21585, -21252, -20917, -20579, -20239,
       -19897, -19552, -19205, -18856, -18505, -18153, -17798, -17442, -17084, -16725, -16364, -16002, -15639, -15274,
       -14909, -14542, -14175, -13807, -13438, -13069, -12699, -12329, -11958, -11587, -11216, -10845, -10475, -10104,
       -9733, -9363, -8994, -8624, -8256, -7888, -7520, -7154, -6789, -6424, -6061, -5699, -5338, -4979,
       -4621, -4264, -3909, -3556, -3205, -2855, -2507, -2162, -1818, -1476, -1137, -800, -465, -133,
       197, 524, 849, 1171, 1490, 1807, 2120, 2431, 2739, 3044, 3345, 3644, 3939, 4231,
       4520, 4805, 5087, 5366, 5641, 5913, 6181, 6445, 6706, 6963, 7217, 7466, 7712, 7954,
       8193, 8427, 8658, 8884, 9107, 9326, 9540, 9751, 9958, 10161, 10360, 10554, 10745, 10932,
       11114, 11293, 11467, 11637, 11804, 11966, 12124, 12278, 12428, 12574, 12716, 12854, 12988, 13118,
       13244, 13365, 13483, 13598, 13708, 13814, 13916, 14015, 14110, 14201, 14288, 14372, 14452, 14528,
       14601, 14670, 14736, 14798, 14857, 14912, 14964, 15013, 15058, 15100, 15139, 15175, 15208, 15238,
       15265, 15289, 15311, 15329, 15345, 15358, 15369, 15377, 15382, 15386, 15387, 15385, 15382, 15376,
       15368, 15358, 15347, 15333, 15318, 15301, 15282, 15262, 15240, 15217, 15193, 15167, 15140, 15112,
       15083, 15053, 15022, 14991, 14958, 14925, 14892, 14858, 14823, 14789, 14754, 14719, 14683, 14648,
       14613, 14578, 14543, 14509, 14475, 14442, 14409, 14376, 14345, 14314, 14284, 14255, 14227, 14200,
       14175, 14151, 14128, 14106, 14086, 14068, 14051, 14036, 14022, 14011, 14001, 13994, 13988, 13985,
       13984, 13985, 13989, 13995, 14003, 14014, 14028, 14044, 14063, 14085, 14110, 14137, 14168, 14201,
       14238, 14278, 14321, 14367, 14417, 14469, 14526, 14585, 14648, 14715, 14785, 14859, 14937, 15018,
       15102, 15191, 15283, 15380, 15480, 15584, 15691, 15803, 15919, 16039, 16162, 16290, 16422, 16558,
       16698, 16842, 16990, 17142, 17298, 17459, 17623, 17792, 17965, 18142, 18323, 18509, 18698, 18892,
       19090, 19291, 19497, 19707, 19922, 20140, 20362, 20588, 20819, 21053, 21291, 21533, 21779, 22029,
       22283, 22541, 22802, 23068, 23337, 23609, 23885, 24165, 24449, 24736, 25026, 25320, 25617, 25918,
       26222, 26529, 26839, 27152, 27469, 27788, 28110, 28436, 28764, 29094, 29428, 29764, 30102, 30444,
       30787, 31133, 31481, 31831, 32184, 32538, 32895, 33253, 33613, 33975, 34339, 34704, 35071, 35439,
       35808, 36179, 36550, 36923, 37297, 37672, 38047, 38423, 38800, 39177, 39555, 39933, 40312, 40690,
       41069, 41447, 41826, 42204, 42582, 42960, 43337, 43713, 44089, 44464, 44838, 45211, 45583, 45954,
       46323, 46691, 47058, 47423, 47786, 48148, 48508, 48866, 49222, 49575, 49927, 50276, 50623, 50967,
       51308, 51647, 51983, 52316, 52646, 52973, 53297, 53618, 53935, 54249, 54559, 54865, 55168, 55467,
       55763, 56054, 56341, 56624, 56903, 57177, 57447, 57713, 57974, 58231, 58483, 58730, 58972, 59209,
       59441, 59669, 59891, 60108, 60319, 60526, 60727, 60922, 61112, 61297, 61475, 61649, 61816, 61977,
       62133, 62283, 62427, 62565, 62696, 62822, 62942, 63055, 63162, 63263, 63358, 63446, 63528, 63603,
       63672, 63735, 63791, 63841, 63884, 63920, 63950, 63974, 63990, 64001, 64004, 64001, 63991, 63975,
       63951, 63921, 63885, 63842, 63792, 63735, 63672, 63602, 63525, 63442, 63352, 63256, 63152, 63043,
       62926, 62804, 62674, 62538, 62396, 62247, 62092, 61930, 61762, 61588, 61407, 61220, 61027, 60828,
       60622, 60411, 60193, 59970, 59740, 59505, 59264, 59017, 58764, 58506, 58242, 57972, 57697, 57416,
       57131, 56839, 56543, 56241, 55935, 55623, 55306, 54985, 54658, 54327, 53992, 53651, 53307, 52957,
       52604, 52246, 51884, 51518, 51148, 50774, 50396, 50015, 49630, 49241, 48849, 48454, 48055, 47653,
       47248, 46840, 46429, 46015, 45599, 45180, 44758, 44335, 43908, 43480, 43050, 42617, 42183, 41746,
       41309, 40869, 40428, 39986, 39542, 39097, 38651, 38204, 37756, 37308, 36859, 36409, 35958, 35508,
       35057, 34606, 34155, 33704, 33253, 32802, 32351, 31902, 31452, 31003, 30555, 30108, 29662, 29217,
       28773, 28330, 27889, 27449, 27010, 26573, 26138, 25705, 25273, 24844, 24417, 23991, 23568, 23148,
       22729, 22314, 21900, 21490, 21082, 20677, 20275, 19876, 19481, 19088, 18698, 18312, 17929, 17550,
       17174, 16802, 16433, 16068, 15707, 15349, 14996, 14647, 14301, 13960, 13623, 13290, 12961, 12636,
       12316, 12000, 11689, 11382, 11080, 10782, 10489, 10201, 9917, 9638, 9364, 9094, 8830, 8570,
       8315, 8065, 7820, 7579, 7344, 7114, 6889, 6669, 6454, 6244, 6038, 5839, 5644, 5454,
       5269, 5089, 4915, 4745, 4581, 4422, 4267, 4118, 3974, 3835, 3701, 3572, 3447, 3328,
       3214, 3105, 3000, 2901, 2806, 2717, 2631, 2551, 2476, 2405, 2339, 2277, 2220, 2168,
       2120, 2077, 2038, 2003, 1973, 1947, 1925, 1907, 1894, 1884, 1879, 1878, 1880, 1886,
       1896, 1910, 1928, 1949, 1973, 2001, 2033, 2068, 2106, 2147, 2191, 2239, 2289, 2342,
       2398, 2457, 2519, 2583, 2650, 2719, 2791, 2865, 2941, 3019, 3099, 3181, 3266, 3352,
       3439, 3529, 3620, 3712, 3806, 3901, 3998, 4095, 4194, 4293, 4394, 4495, 4597, 4700,
       4803, 4907, 5011, 5115, 5220, 5325, 5430, 5534, 5639, 5744, 5848, 5952, 6055, 6158,
       6260, 6362, 6463, 6562, 6662, 6760, 6857, 6952, 7047, 7140, 7232, 7322, 7411, 7498,
       7584, 7668, 7750, 7830, 7908, 7984, 8058, 8130, 8199, 8266, 8331, 8394, 8454, 8511,
       8566, 8618, 8668, 8714, 8758, 8799, 8838, 8873, 8905 >>

TablaOndasL ==
    << 34308, 34223, 34133, 34039, 33940, 33837, 33729, 33617, 33501, 33381, 33257, 33129, 32998, 32863,
       32724, 32581, 32436, 32287, 32135, 31980, 31822, 31661, 31497, 31331, 31162, 30991, 30818, 30642,
       30465, 30285, 30103, 29920, 29735, 29548, 29360, 29171, 28980, 28788, 28595, 28401, 28206, 28010,
       27814, 27617, 27420, 27222, 27024, 26826, 26628, 26429, 26231, 26033, 25835, 25637, 25440, 25244,
       25048, 24852, 24658, 24464, 24271, 24079, 23889, 23699, 23510, 23323, 23137, 22953, 22770, 22589,
       22409, 22231, 22054, 21880, 21707, 21536, 21367, 21200, 21035, 20872, 20711, 20553, 20396, 20242,
       20090, 19941, 19794, 19649, 19507, 19367, 19229, 19094, 18962, 18832, 18705, 18580, 18458, 18338,
       18222, 18107, 17996, 17887, 17780, 17676, 17575, 17477, 17381, 17288, 17197, 17109, 17024, 16941,
       16861, 16783, 16708, 16636, 16566, 16498, 16433, 16371, 16310, 16253, 16197, 16144, 16093, 16045,
       15998, 15954, 15912, 15872, 15834, 15798, 15765, 15733, 15703, 15675, 15648, 15624, 15601, 15580,
       15560, 15542, 15526, 15510, 15497, 15484, 15473, 15464, 15455, 15447, 15441, 15436, 15431, 15427,
       15425, 15423, 15421, 15421, 15420, 15421, 15422, 15423, 15425, 15427, 15429, 15431, 15433, 15436,
       15438, 15441, 15443, 15445, 15446, 15448, 15449, 15449, 15449, 15449, 15448, 15446, 15443, 15440,
       15436, 15431, 15425, 15418, 15410, 15400, 15390, 15379, 15366, 15352, 15336, 15320, 15301, 15282,
       15260, 15238, 15213, 15187, 15160, 15130, 15099, 15066, 15031, 14995, 14956, 14916, 14874, 14829,
       14783, 14735, 14685, 14632, 14578, 14521, 14463, 14402, 14339, 14274, 14207, 14137, 14066, 13992,
       13916, 13838, 13758, 13676, 13591, 13504, 13415, 13324, 13230, 13135, 13037, 12937, 12835, 12731,
       12625, 12517, 12407, 12294, 12180, 12064, 11945, 11825, 11703, 11579, 11453, 11325, 11195, 11064,
       10931, 10796, 10660, 10521, 10382, 10241, 10098, 9954, 9808, 9661, 9513, 9364, 9213, 9061,
       8908, 8754, 8599, 8442, 8285, 8128, 7969, 7809, 7649, 7488, 7327, 7165, 7003, 6840,
       6677, 6513, 6349, 6186, 6022, 5857, 5693, 5529, 5366, 5202, 5039, 4875, 4713, 4551,
       4389, 4228, 4067, 3907, 3748, 3589, 3432, 3275, 3120, 2965, 2812, 2659, 2508, 2359,
       2210, 2063, 1917, 1773, 1631, 1490, 1350, 1213, 1077, 943, 811, 680, 552, 426,
       301, 179, 59, -59, -175, -288, -399, -508, -614, -718, -820, -919, -1016, -1110,
       -1202, -1291, -1377, -1461, -1542, -1621, -1697, -1770, -1840, -1908, -1973, -2035, -2094, -2151,
       -2205, -2256, -2305, -2350, -2393, -2433, -2470, -2505, -2537, -2566, -2592, -2616, -2637, -2655,
       -2670, -2683, -2693, -2701, -2706, -2709, -2709, -2706, -2701, -2694, -2684, -2672, -2658, -2641,
       -2622, -2601, -2578, -2553, -2525, -2496, -2464, -2431, -2396, -2359, -2321, -2281, -2239, -2195,
       -2150, -2104, -2056, -2008, -1957, -1906, -1854, -1800, -1746, -1691, -1635, -1578, -1521, -1463,
       -1404, -1345, -1286, -1227, -1167, -1108, -1048, -989, -929, -870, -811, -753, -695, -638,
       -581, -526, -471, -417, -364, -312, -261, -212, -164, -117, -72, -29, 13, 53,
       90, 126, 160, 192, 221, 248, 273, 295, 315, 332, 346, 357, 365, 371,
       373, 373, 369, 361, 351, 337, 319, 298, 273, 245, 212, 176, 136, 92,
       44, -8, -65, -125, -190, -259, -332, -410, -493, -580, -671, -767, -868, -973,
       -1083, -1198, -1318, -1442, -1572, -1706, -1845, -1989, -2138, -2292, -2451, -2615, -2783, -2957,
       -3136, -3320, -3509, -3703, -3902, -4106, -4315, -4529, -4748, -4972, -5201, -5435, -5673, -5917,
       -6166, -6419, -6677, -6940, -7208, -7480, -7757, -8039, -8325, -8616, -8911, -9211, -9515, -9824,
       -10136, -10453, -10774, -11100, -11429, -11762, -12099, -12439, -12784, -13132, -13483, -13838, -14197, -14559,
       -14924, -15292, -15663, -16037, -16414, -16793, -17176, -17560, -17947, -18337, -18729, -19123, -19518, -19916,
       -20316, -20717, -21120, -21524, -21929, -22336, -22743, -23152, -23562, -23972, -24382, -24793, -25205, -25616,
       -26028, -26440, -26851, -27262, -27672, -28082, -28491, -28900, -29307, -29713, -30118, -30521, -30923, -31323,
       -31721, -32117, -32511, -32903, -33293, -33680, -34064, -34445, -34824, -35199, -35571, -35940, -36305, -36667,
       -37025, -37379, -37729, -38075, -38416, -38753, -39086, -39414, -39737, -40055, -40368, -40676, -40979, -41276,
       -41567, -41853, -42134, -42408, -42676, -42938, -43194, -43444, -43687, -43923, -44153, -44376, -44593, -44802,
       -45004, -45199, -45387, -45567, -45740, -45906, -46064, -46214, -46357, -46491, -46618, -46737, -46848, -46951,
       -47045, -47131, -47209, -47279, -47340, -47393, -47437, -47473, -47500, -47519, -47529, -47530, -47522, -47506,
       -47481, -47447, -47404, -47352, -47292, -47223, -47144, -47057, -46961, -46856, -46743, -46620, -46488, -46348,
       -46199, -46041, -45874, -45698, -45514, -45321, -45119, -44909, -44690, -44462, -44226, -43981, -43728, -43467,
       -43197, -42919, -42633, -42339, -42036, -41726, -41408, -41081, -40747, -40406, -40057, -39700, -39336, -38964,
       -38585, -38199, -37806, -37406, -36999, -36586, -36166, -35739, -35306, -34866, -34420, -33969, -33511, -33047,
       -32578, -32103, -31623, -31137, -30647, -30151, -29650, -29144, -28634, -28119, -27600, -27077, -26549, -26018,
       -25483, -24944, -24401, -23856, -23307, -22755, -22200, -21642, -21082, -20519, -19954, -19387, -18818, -18247,
       -17675, -17101, -16525, -15949, -15371, -14793, -14214, -13634, -13054, -12473, -11893, -11312, -10732, -10152,
       -9573, -8995, -8417, -7840, -7265, -6691, -6118, -5547, -4978, -4410, -3845, -3282, -2722, -2163,
       -1608, -1055, -506, 41, 584, 1124, 1661, 2194, 2723, 3248, 3769, 4286, 4799, 5307,
       5811, 6310, 6804, 7293, 7778, 8257, 8731, 9199, 9663, 10120, 10572, 11018, 11459, 11893,
       12321, 12744, 13159, 13569, 13972, 14369, 14759, 15143, 15520, 15890, 16254, 16610, 16959, 17302,
       17637, 17966, 18287, 18601, 18907, 19206, 19498, 19783, 20060, 20330, 20592, 20847, 21094, 21333,
       21565, 21790, 22007, 22216, 22418, 22612, 22799, 22977, 23149, 23313, 23469, 23617, 23758, 23892,
       24018, 24137, 24248, 24352, 24448, 24537, 24619, 24693, 24760, 24820, 24873, 24919, 24958, 24990,
       25015, 25033, 25045, 25049, 25047, 25039, 25024, 25002, 24974, 24940, 24900, 24854, 24801, 24743,
       24679, 24609, 24533, 24452, 24365, 24273, 24176, 24073, 23966, 23853, 23736, 23614, 23487, 23355,
       23220, 23079, 22935, 22787, 22634, 22478, 22318, 22154, 21987, 21816, 21643, 21466, 21286, 21103,
       20917, 20728, 20537, 20344, 20148, 19950, 19750, 19548, 19345, 19139, 18932, 18724, 18514, 18303,
       18091, 17879, 17665, 17450, 17235, 17020, 16804, 16588, 16372, 16156, 15940, 15724, 15509, 15294,
       15080, 14866, 14654, 14442, 14231, 14022, 13814, 13607, 13401, 13197, 12995, 12795, 12596, 12400,
       12206, 12013, 11823, 11636, 11451, 11268, 11088, 10911, 10736, 10565, 10396, 10230, 10068, 9908,
       9752, 9599, 9450, 9304, 9162, 9023, 8888, 8756, 8629, 8505, 8385, 8269, 8156, 8048,
       7944, 7844, 7748, 7656, 7569, 7485, 7406, 7331, 7261, 7195, 7133, 7075, 7022, 6973,
       6929, 6889, 6854, 6823, 6796, 6774, 6756, 6742, 6733, 6729, 6729, 6733, 6741, 6754,
       6772, 6793, 6819, 6849, 6883, 6922, 6964, 7011, 7062, 7117, 7176, 7239, 7306, 7377,
       7451, 7530, 7612, 7698, 7788, 7881, 7978, 8078, 8181, 8288, 8399, 8512, 8629, 8749,
       8872, 8997, 9126, 9258, 9392, 9529, 9669, 9811, 9955, 10102, 10252, 10403, 10557, 10713,
       10871, 11030, 11192, 11355, 11520, 11687, 11855, 12024, 12195, 12367, 12540, 12714, 12890, 13066,
       13243, 13420, 13599, 13778, 13957, 14137, 14317, 14497, 14677, 14858, 15038, 15219, 15399, 15578,
       15758, 15937, 16115, 16293, 16470, 16646, 16822, 16997, 17170, 17343, 17514, 17684, 17853, 18020,
       18186, 18350, 18513, 18674, 18834, 18991, 19147, 19301, 19453, 19602, 19750, 19895, 20039, 20180,
       20318, 20454, 20588, 20719, 20848, 20974, 21098, 21218, 21336, 21452, 21564, 21674, 21781, 21884,
       21985, 22083, 22178, 22270, 22358, 22444, 22526, 22606, 22682, 22755, 22825, 22891, 22955, 23015,
       23071, 23125, 23175, 23222, 23266, 23306, 23343, 23377, 23408, 23435, 23459, 23480, 23497, 23511,
       23522, 23530, 23535, 23536, 23534, 23529, 23521, 23510, 23496, 23478, 23458, 23434, 23408, 23379,
       23346, 23311, 23273, 23232, 23189, 23142, 23093, 23041, 22987, 22930, 22871, 22809, 22744, 22677,
       22608, 22536, 22463, 22387, 22309, 22228, 22146, 22061, 21975, 21887, 21797, 21705, 21611, 21516,
       21419, 21320, 21220, 21119, 21016, 20911, 20806, 20699, 20591, 20481, 20371, 20260, 20147, 20034,
       19920, 19805, 19690, 19574, 19457, 19339, 19221, 19103, 18984, 18865, 18745, 18626, 18506, 18386,
       18265, 18145, 18025, 17905, 17785, 17665, 17545, 17426, 17307, 17188, 17070, 16952, 16834, 16717,
       16601, 16485, 16370, 16255, 16141, 16028, 15915, 15804, 15693, 15583, 15474, 15365, 15258, 15152,
       15046, 14942, 14839, 14736, 14635, 14535, 14436, 14337, 14241, 14145, 14050, 13956, 13864, 13773,
       13682, 13593, 13505, 13419, 13333, 13249, 13165, 13083, 13002, 12922, 12843, 12765, 12688, 12612,
       12538, 12464, 12391, 12319, 12249, 12179, 12110, 12042, 11974, 11908, 11842, 11777, 11713, 11649,
       11586, 11524, 11462, 11400, 11339, 11279, 11219, 11159, 11100, 11041, 10982, 10923, 10864, 10806,
       10747, 10688, 10629, 10571, 10511, 10452, 10392, 10332, 10271, 10210, 10149, 10086, 10023, 9960,
       9895, 9830, 9764, 9696, 9628, 9559, 9488, 9416, 9343, 9268, 9192, 9115, 9036, 8955,
       8873, 8789, 8703, 8616, 8526, 8434, 8341, 8245, 8147, 8046, 7944, 7839, 7732, 7622,
       7509, 7395, 7277, 7157, 7034, 6908, 6779, 6647, 6513, 6375, 6234, 6090, 5943, 5793,
       5639, 5483, 5322, 5159, 4992, 4821, 4647, 4470, 4289, 4104, 3916, 3724, 3528, 3329,
       3126, 2919, 2708, 2494, 2275, 2053, 1827, 1597, 1363, 1126, 884, 638, 389, 136,
       -122, -383, -648, -917, -1190, -1467, -1747, -2032, -2320, -2612, -2908, -3208, -3512, -3819,
       -4130, -4445, -4763, -5085, -5411, -5740, -6073, -6409, -6748, -7091, -7437, -7787, -8139, -8495,
       -8854, -9216, -9581, -9949, -10320, -10694, -11070, -11449, -11831, -12215, -12601, -12990, -13382, -13775,
       -14171, -14568, -14968, -15370, -15773, -16178, -16584, -16992, -17402, -17813, -18225, -18638, -19052, -19467,
       -19883, -20300, -20717, -21135, -21553, -21972, -22390, -22809, -23228, -23646, -24065, -24482, -24900, -25317,
       -25733, -26148, -26562, -26975, -27387, -27797, -28207, -28614, -29020, -29424, -29826, -30226, -30624, -31020,
       -31413, -31803, -32191, -32576, -32959, -33338, -33714, -34087, -34456, -34822, -35184, -35543, -35897, -36248,
       -36595, -36937, -37275, -37609, -37938, -38262, -38581, -38896, -39205, -39510, -39809, -40103, -40391, -40674,
       -40952, -41223, -41489, -41748, -42002, -42249, -42491, -42726, -42954, -43176, -43392, -43600, -43802, -43997,
       -44185, -44367, -44541, -44708, -44867, -45020, -45165, -45302, -45432, -45555, -45670, -45777, -45877, -45969,
       -46053, -46129, -46197, -46258, -46310, -46354, -46391, -46419, -46439, -46451, -46455, -46450, -46438, -46417,
       -46388, -46350, -46305, -46251, -46189, -46119, -46040, -45954, -45859, -45756, -45644, -45525, -45397, -45261,
       -45117, -44965, -44805, -44637, -44461, -44277, -44085, -43886, -43678, -43463, -43240, -43009, -42771, -42526,
       -42273, -42012, -41744, -41469, -41187, -40898, -40601, -40298, -39988, -39671, -39348, -39018, -38681, -38338,
       -37989, -37633, -37272, -36904, -36531, -36152, -35767, -35377, -34981, -34580, -34173, -33762, -33346, -32925,
       -32499, -32068, -31634, -31194, -30751, -30304, -29853, -29397, -28939, -28477, -28011, -27542, -27071, -26596,
       -26118, -25638, -25155, -24670, -24183, -23694, -23203, -22710, -22215, -21719, -21222, -20724, -20224, -19724,
       -19223, -18722, -18220, -17718, -17215, -16713, -16211, -15710, -15209, -14708, -14209, -13710, -13213, -12717,
       -12222, -11729, -11238, -10748, -10261, -9775, -9292, -8812, -8334, -7858, -7386, -6916, -6450, -5987,
       -5528, -5072, -4619, -4171, -3726, -3285, -2849, -2417, -1989, -1566, -1148, -734, -325, 78,
       477, 870, 1258, 1641, 2018, 2389, 2755, 3115, 3469, 3817, 4159, 4495, 4824, 5147,
       5464, 5774, 6078, 6375, 6665, 6949, 7225, 7495, 7758, 8014, 8263, 8505, 8740, 8967,
       9188, 9401, 9606, 9805, 9996, 10180, 10356, 10526, 10687, 10841, 10988, 11128, 11260, 11384,
       11501, 11611, 11713, 11808, 11895, 11975, 12048, 12113, 12171, 12222, 12265, 12301, 12330, 12352,
       12367, 12375, 12375, 12369, 12356, 12336, 12309, 12276, 12235, 12189, 12135, 12076, 12009, 11937,
       11858, 11773, 11682, 11586, 11483, 11374, 11260, 11140, 11014, 10883, 10747, 10606, 10459, 10308,
       10151, 9990, 9824, 9653, 9478, 9299, 9116, 8928, 8736, 8541, 8341, 8139, 7932, 7723,
       7510, 7293, 7074, 6853, 6628, 6401, 6171, 5939, 5705, 5469, 5231, 4991, 4750, 4507,
       4262, 4017, 3770, 3522, 3274, 3025, 2775, 2525, 2275, 2025, 1774, 1524, 1274, 1025,
       776, 528, 280, 34, -211, -456, -698, -939, -1179, -1417, -1653, -1887, -2118, -2348,
       -2575, -2799, -3021, -3241, -3457, -3670, -3880, -4087, -4291, -4491, -4688, -4881, -5070, -5256,
       -5437, -5614, -5788, -5956, -6121, -6281, -6437, -6588, -6734, -6875, -7012, -7143, -7270, -7391,
       -7507, -7618, -7724, -7824, -7919, -8008, -8092, -8170, -8243, -8309, -8370, -8425, -8474, -8518,
       -8555, -8586, -8612, -8631, -8644, -8651, -8652, -8647, -8635, -8618, -8594, -8564, -8528, -8485,
       -8437, -8382, -8321, -8254, -8180, -8101, -8015, -7923, -7825, -7720, -7610, -7493, -7371, -7242,
       -7108, -6968, -6821, -6669, -6511, -6347, -6177, -6002, -5821, -5635, -5443, -5245, -5042, -4834,
       -4620, -4402, -4178, -3949, -3715, -3476, -3232, -2983, -2730, -2472, -2210, -1943, -1672, -1396,
       -1116, -833, -545, -253, 42, 342, 645, 951, 1261, 1574, 1891, 2210, 2533, 2858,
       3187, 3518, 3851, 4187, 4526, 4867, 5210, 5554, 5901, 6250, 6601, 6953, 7306, 7661,
       8017, 8375, 8733, 9092, 9452, 9813, 10175, 10536, 10899, 11261, 11624, 11986, 12349, 12711,
       13073, 13435, 13796, 14156, 14516, 14875, 15233, 15589, 15945, 16299, 16652, 17004, 17354, 17702,
       18048, 18393, 18735, 19076, 19414, 19750, 20083, 20414, 20743, 21069, 21392, 21713, 22030, 22345,
       22656, 22964, 23269, 23571, 23870, 24165, 24456, 24744, 25028, 25309, 25586, 25859, 26128, 26393,
       26653, 26910, 27163, 27412, 27656, 27896, 28132, 28363, 28590, 28813, 29031, 29244, 29453, 29657,
       29857, 30052, 30242, 30427, 30608, 30784, 30956, 31122, 31284, 31441, 31593, 31740, 31882, 32020,
       32153, 32280, 32403, 32521, 32635, 32743, 32846, 32945, 33039, 33128, 33213, 33292, 33367, 33437,
       33502, 33563, 33619, 33670, 33717, 33759, 33797, 33830, 33859, 33883, 33903, 33918, 33929, 33936,
       33939, 33937, 33932, 33922, 33908, 33890, 33868, 33842, 33813, 33779, 33742, 33701, 33657, 33609,
       33557, 33502, 33444, 33382, 33317, 33248, 33177, 33102, 33025, 32944, 32860, 32774, 32685, 32593,
       32498, 32401, 32302, 32200, 32095, 31988, 31879, 31768, 31654, 31539, 31421, 31302, 31181, 31058,
       30933, 30806, 30678, 30548, 30417, 30285, 30151, 30016, 29879, 29742, 29603, 29463, 29322, 29181,
       29038, 28895, 28750, 28605, 28460, 28314, 28167, 28020, 27872, 27724, 27576, 27427, 27278, 27129,
       26980, 26830, 26681, 26531, 26382, 26232, 26083, 25933, 25784, 25635, 25486, 25338, 25189, 25042,
       24894, 24747, 24600, 24453, 24307, 24162, 24016, 23872, 23727, 23584, 23441, 23298, 23156, 23014,
       22873, 22733, 22593, 22454, 22315, 22177, 22040, 21903, 21766, 21630, 21495, 21361, 21226, 21093,
       20960, 20827, 20695, 20563, 20432, 20301, 20171, 20041, 19911, 19782, 19653, 19525, 19396, 19268,
       19141, 19013, 18885, 18758, 18631, 18504, 18376, 18249, 18122, 17995, 17867, 17740, 17612, 17484,
       17356, 17227, 17098, 16969, 16839, 16708, 16578, 16446, 16314, 16181, 16048, 15913, 15778, 15642,
       15505, 15368, 15229, 15089, 14948, 14806, 14662, 14518, 14372, 14225, 14076, 13926, 13774, 13621,
       13467, 13310, 13153, 12993, 12831, 12668, 12503, 12336, 12167, 11996, 11824, 11649, 11472, 11292,
       11111, 10927, 10741, 10553, 10363, 10170, 9975, 9777, 9577, 9374, 9169, 8961, 8751, 8538,
       8323, 8105, 7884, 7660, 7434, 7205, 6974, 6739, 6502, 6262, 6019, 5773, 5525, 5274,
       5020, 4763, 4503, 4240, 3975, 3707, 3436, 3162, 2885, 2606, 2323, 2038, 1750, 1460,
       1167, 870, 572, 270, -34, -340, -649, -961, -1276, -1592, -1912, -2233, -2557, -2884,
       -3212, -3543, -3877, -4212, -4549, -4889, -5230, -5574, -5919, -6266, -6615, -6966, -7319, -7673,
       -8028, -8385, -8744, -9103, -9465, -9827, -10190, -10555, -10920, -11286, -11653, -12021, -12390, -12759,
       -13129, -13499, -13869, -14240, -14610, -14981, -15352, -15722, -16093, -16463, -16833, -17202, -17571, -17939,
       -18306, -18672, -19038, -19402, -19765, -20127, -20488, -20847, -21205, -21560, -21915, -22267, -22617, -22966,
       -23312, -23656, -23997, -24336, -24673, -25006, -25337, -25666, -25991, -26313, -26632, -26948, -27260, -27569,
       -27875, -28177, -28475, -28769, -29059, -29345, -29627, -29905, -30179, -30448, -30713, -30973, -31228, -31479,
       -31725, -31966, -32202, -32433, -32659, -32880, -33095, -33305, -33509, -33708, -33902, -34089, -34271, -34447,
       -34618, -34782, -34940, -35093, -35239, -35379, -35513, -35640, -35762, -35877, -35985, -36087, -36183, -36272,
       -36355, -36431, -36500, -36563, -36619, -36668, -36711, -36747, -36776, -36798, -36813, -36822, -36824, -36819,
       -36807, -36789, -36763, -36731, -36692, -36646, -36593, -36534, -36468, -36395, -36315, -36229, -36135, -36036,
       -35929, -35816, -35697, -35571, -35438, -35299, -35154, -35002, -34844, -34680, -34509, -34333, -34150, -33961,
       -33767, -33566, -33360, -33148, -32930, -32707, -32478, -32243, -32004, -31759, -31509, -31253, -30993, -30728,
       -30458, -30183, -29904, -29620, -29332, -29039, -28742, -28441, -28136, -27827, -27514, -27198, -26878, -26554,
       -26228, -25898, -25565, -25229, -24890, -24548, -24204, -23857, -23508, -23157, -22803, -22448, -22091, -21732,
       -21372, -21010, -20647, -20282, -19917, -19551, -19183, -18816, -18448, -18079, -17710, -17341, -16972, -16604,
       -16236, -15868, -15500, -15134, -14768, -14404, -14040, -13678, -13317, -12958, -12600, -12244, -11891, -11539,
       -11189, -10842, -10497, -10155, -9816, -9479, -9146, -8815, -8488, -8164, -7843, -7526, -7213, -6904,
       -6598, -6297, -6000, -5706, -5418, -5134, -4854, -4579, -4309, -4044, -3783, -3528, -3278, -3033,
       -2794, -2560, -2331, -2108, -1891, -1680, -1474, -1274, -1081, -893, -711, -536, -367, -204,
       -47, 103, 247, 384, 515, 639, 757, 867, 972, 1069, 1160, 1244, 1321, 1391,
       1455, 1512, 1561, 1604, 1640, 1670, 1692, 1707, 1716, 1718, 1713, 1701, 1682, 1656,
       1624, 1585, 1539, 1487, 1428, 1362, 1290, 1211, 1125, 1034, 936, 831, 720, 603,
       480, 351, 216, 75, -72, -225, -384, -548, -718, -893, -1074, -1260, -1451, -1648,
       -1849, -2055, -2267, -2482, -2703, -2928, -3157, -3391, -3629, -3871, -4117, -4367, -4620, -4877,
       -5138, -5402, -5669, -5939, -6213, -6489, -6768, -7049, -7333, -7619, -7907, -8198, -8490, -8784,
       -9080, -9377, -9675, -9975, -10276, -10577, -10880, -11183, -11486, -11790, -12094, -12398, -12702, -13006,
       -13309, -13612, -13914, -14215, -14515, -14815, -15112, -15409, -15704, -15997, -16288, -16578, -16865, -17150,
       -17433, -17713, -17990, -18264, -18536, -18804, -19070, -19331, -19590, -19844, -20095, -20342, -20585, -20824,
       -21058, -21289, -21514, -21735, -21951, -22163, -22369, -22570, -22766, -22957, -23142, -23322, -23496, -23664,
       -23827, -23984, -24134, -24279, -24417, -24549, -24674, -24793, -24906, -25012, -25111, -25203, -25289, -25367,
       -25439, -25504, -25561, -25612, -25655, -25691, -25719, -25740, -25754, -25761, -25759, -25751, -25734, -25711,
       -25679, -25640, -25593, -25539, -25477, -25407, -25330, -25244, -25151, -25051, -24942, -24826, -24702, -24571,
       -24431, -24284, -24130, -23967, -23797, -23620, -23435, -23242, -23042, -22835, -22620, -22397, -22168, -21931,
       -21687, -21435, -21177, -20911, -20639, -20359, -20073, -19780, -19480, -19174, -18861, -18541, -18215, -17883,
       -17544, -17200, -16849, -16492, -16129, -15761, -15387, -15007, -14622, -14231, -13835, -13434, -13028, -12616,
       -12200, -11780, -11354, -10924, -10490, -10052, -9609, -9162, -8712, -8257, -7799, -7338, -6873, -6404,
       -5933, -5458, -4981, -4501, -4018, -3533, -3046, -2556, -2064, -1571, -1075, -578, -79, 421,
       922, 1425, 1928, 2433, 2938, 3443, 3949, 4456, 4962, 5469, 5975, 6482, 6987, 7493,
       7997, 8501, 9004, 9506, 10007, 10506, 11004, 11501, 11996, 12489, 12979, 13468, 13955, 14440,
       14922, 15401, 15878, 16352, 16823, 17291, 17756, 18217, 18675, 19130, 19582, 20029, 20473, 20913,
       21349, 21781, 22208, 22632, 23051, 23465, 23875, 24281, 24681, 25077, 25468, 25854, 26235, 26611,
       26982, 27348, 27708, 28063, 28412, 28756, 29094, 29427, 29754, 30076, 30391, 30701, 31005, 31303,
       31595, 31881, 32161, 32435, 32702, 32964, 33220, 33469, 33712, 33949, 34180, 34405, 34623, 34835,
       35041, 35240, 35433, 35620, 35801, 35975, 36143, 36305, 36461, 36610, 36753, 36890, 37020, 37145,
       37263, 37375, 37481, 37581, 37675, 37763, 37845, 37921, 37991, 38055, 38114, 38166, 38213, 38254,
       38290, 38320, 38344, 38363, 38377, 38385, 38388, 38385, 38378, 38365, 38347, 38324, 38297, 38264,
       38226, 38184, 38137, 38086, 38030, 37970, 37905, 37836, 37762, 37685, 37603, 37518, 37428, 37335,
       37238, 37138, 37033, 36926, 36814, 36700, 36582, 36461, 36337, 36210, 36080, 35947, 35812, 35673,
       35533, 35389, 35243, 35095, 34945, 34792, 34638, 34481, 34323, 34162, 34000, 33836, 33671, 33504,
       33335, 33166, 32995, 32822, 32649, 32474, 32299, 32123, 31945, 31767, 31589, 31410, 31230, 31049,
       30869, 30688, 30506, 30325, 30143, 29961, 29779, 29598, 29416, 29234, 29053, 28872, 28691, 28510,
       28330, 28151, 27972, 27793, 27615, 27438, 27261, 27085, 26910, 26735, 26562, 26389, 26217, 26046,
       25876, 25707, 25539, 25372, 25206, 25042, 24878, 24715, 24554, 24393, 24234, 24076, 23919, 23764,
       23609, 23456, 23304, 23153, 23004, 22855, 22708, 22562, 22417, 22274, 22131, 21990, 21850, 21711,
       21573, 21437, 21301, 21167, 21033, 20901, 20770, 20640, 20510, 20382, 20255, 20128, 20003, 19878,
       19754, 19631, 19509, 19388, 19267, 19147, 19027, 18908, 18790, 18672, 18554, 18437, 18321, 18205,
       18089, 17973, 17858, 17743, 17628, 17513, 17398, 17283, 17168, 17053, 16938, 16822, 16707, 16591,
       16475, 16358, 16241, 16124, 16006, 15888, 15769, 15649, 15529, 15408, 15286, 15163, 15040, 14915,
       14790, 14664, 14536, 14408, 14278, 14147, 14015, 13882, 13747, 13611, 13474, 13335, 13195, 13053,
       12910, 12765, 12619, 12470, 12321, 12169, 12016, 11861, 11705, 11546, 11386, 11224, 11060, 10894,
       10726, 10556, 10385, 10211, 10035, 9857, 9678, 9496, 9312, 9126, 8938, 8748, 8556, 8362,
       8165, 7967, 7766, 7564, 7359, 7152, 6944, 6733, 6520, 6305, 6088, 5869, 5648, 5425,
       5200, 4973, 4744, 4513, 4281, 4046, 3810, 3572, 3332, 3090, 2847, 2602, 2355, 2107,
       1857, 1606, 1353, 1099, 844, 587, 329, 69, -191, -453, -716, -980, -1245, -1510,
       -1777, -2044, -2313, -2582, -2851, -3121, -3392, -3663, -3934, -4206, -4478, -4750, -5022, -5294,
       -5566, -5838, -6110, -6382, -6653, -6924, -7194, -7464, -7734, -8002, -8270, -8537, -8803, -9067,
       -9331, -9594, -9855, -10116, -10374, -10631, -10887, -11141, -11393, -11644, -11893, -12139, -12384, -12626,
       -12867, -13105, -13341, -13574, -13805, -14033, -14259, -14482, -14702, -14920, -15134, -15345, -15554, -15759,
       -15961, -16160, -16355, -16547, -16735, -16920, -17102, -17280, -17454, -17624, -17790, -17953, -18111, -18266,
       -18416, -18562, -18705, -18843, -18976, -19106, -19231, -19351, -19468, -19580, -19687, -19790, -19888, -19981,
       -20070, -20155, -20234, -20309, -20379, -20445, -20505, -20561, -20612, -20658, -20699, -20736, -20768, -20794,
       -20816, -20833, -20845, -20853, -20855, -20853, -20845, -20833, -20816, -20795, -20768, -20737, -20701, -20660,
       -20615, -20564, -20510, -20450, -20386, -20318, -20245, -20167, -20085, -19999, -19908, -19813, -19714, -19611,
       -19503, -19392, -19276, -19157, -19033, -18906, -18775, -18640, -18502, -18360, -18214, -18065, -17913, -17758,
       -17599, -17437, -17273, -17105, -16934, -16761, -16585, -16406, -16225, -16042, -15856, -15668, -15478, -15286,
       -15092, -14896, -14698, -14499, -14298, -14096, -13893, -13688, -13482, -13276, -13068, -12860, -12651, -12441,
       -12231, -12021, -11810, -11599, -11389, -11178, -10968, -10758, -10549, -10340, -10131, -9924, -9718, -9512,
       -9308, -9105, -8903, -8703, -8504, -8307, -8112, -7919, -7728, -7539, -7353, -7168, -6987, -6807,
       -6631, -6457, -6286, -6119, -5954, -5792, -5634, -5480, -5328, -5181, -5037, -4897, -4761, -4628,
       -4500, -4376, -4256, -4141, -4030, -3924, -3822, -3725, -3632, -3544, -3462, -3384, -3311, -3243,
       -3181, -3123, -3071, -3025, -2983, -2948, -2917, -2892, -2873, -2860, -2852, -2850, -2853, -2863,
       -2878, -2899, -2926, -2959, -2998, -3043, -3093, -3150, -3213, -3282, -3357, -3438, -3525, -3618,
       -3717, -3822, -3933, -4050, -4173, -4302, -4437, -4578, -4724, -4877, -5036, -5200, -5370, -5546,
       -5728, -5915, -6108, -6307, -6511, -6720, -6935, -7155, -7381, -7611, -7847, -8088, -8334, -8586,
       -8841, -9102, -9367, -9638, -9912, -10191, -10475, -10762, -11054, -11350, -11650, -11954, -12262, -12573,
       -12888, -13206, -13528, -13853, -14181, -14512, -14846, -15183, -15523, -15865, -16209, -16556, -16905, -17256,
       -17608, -17963, -18319, -18677, -19036, -19397, -19758, -20121, -20484, -20848, -21212, -21577, -21942, -22308,
       -22673, -23038, -23403, -23767, -24131, -24494, -24856, -25217, -25577, -25936, -26293, -26648, -27002, -27354,
       -27704, -28051, -28396, -28739, -29079, -29417, -29751, -30082, -30410, -30735, -31056, -31374, -31688, -31998,
       -32304, -32606, -32903, -33196, -33484, -33768, -34047, -34321, -34590, -34853, -35111, -35364, -35611, -35853,
       -36088, -36318, -36542, -36759, -36970, -37175, -37374, -37565, -37750, -37929, -38100, -38264, -38422, -38572,
       -38715, -38850, -38978, -39099, -39212, -39317, -39414, -39504, -39586, -39660, -39726, -39784, -39833, -39875,
       -39908, -39933, -39950, -39958, -39958, -39949, -39932, -39907, -39872, -39830, -39778, -39718, -39650, -39572,
       -39486, -39392, -39288, -39176, -39056, -38926, -38788, -38642, -38486, -38322, -38150, -37968, -37779, -37580,
       -37373, -37158, -36934, -36702, -36461, -36212, -35955, -35689, -35416, -35134, -34844, -34546, -34240, -33927,
       -33605, -33276, -32939, -32595, -32243, -31883, -31516, -31142, -30761, -30373, -29978, -29576, -29167, -28752,
       -28330, -27901, -27466, -27025, -26578, -26124, -25665, -25200, -24730, -24254, -23772, -23285, -22793, -22296,
       -21794, -21287, -20776, -20260, -19740, -19215, -18686, -18154, -17618, -17078, -16534, -15987, -15437, -14884,
       -14327, -13768, -13207, -12642, -12076, -11507, -10937, -10364, -9789, -9214, -8636, -8057, -7478, -6897,
       -6315, -5733, -5150, -4567, -3983, -3400, -2817, -2233, -1651, -1069, -487, 94, 673, 1252,
       1829, 2405, 2979, 3552, 4122, 4691, 5257, 5821, 6383, 6942, 7499, 8052, 8603, 9150,
       9695, 10235, 10773, 11307, 11836, 12363, 12885, 13403, 13916, 14426, 14930, 15431, 15926, 16417,
       16903, 17384, 17860, 18330, 18795, 19255, 19709, 20158, 20601, 21038, 21469, 21895, 22314, 22727,
       23135, 23535, 23930, 24318, 24700, 25075, 25444, 25806, 26161, 26509, 26851, 27186, 27514, 27835,
       28149, 28457, 28757, 29050, 29336, 29615, 29886, 30151, 30408, 30658, 30901, 31137, 31366, 31587,
       31801, 32008, 32208, 32400, 32585, 32763, 32934, 33098, 33254, 33403, 33546, 33681, 33809, 33930,
       34044, 34151, 34251, 34344, 34430, 34510, 34583, 34649, 34708, 34761, 34807, 34847, 34880, 34907,
       34928, 34942, 34950, 34952, 34948, 34938, 34923, 34901, 34873, 34840, 34801, 34757, 34708, 34653,
       34592, 34527, 34456, 34381, 34300, 34215, 34125, 34030, 33931, 33827, 33719, 33607, 33491, 33370,
       33246, 33118, 32986, 32850, 32711, 32569, 32423, 32273, 32121, 31966, 31808, 31646, 31483, 31316,
       31147, 30976, 30802, 30627, 30449, 30269, 30087, 29904, 29718, 29532, 29343, 29154, 28963, 28771,
       28578, 28384, 28189, 27993, 27797, 27600, 27402, 27205, 27007, 26808, 26610, 26412, 26213, 26015,
       25817, 25620, 25423, 25226, 25030, 24835, 24641, 24447, 24254, 24062, 23872, 23682, 23494, 23307,
       23121, 22937, 22754, 22573, 22393, 22215, 22039, 21864, 21692, 21521, 21352, 21185, 21020, 20858,
       20697, 20539, 20383, 20229, 20077, 19928, 19781, 19636, 19494, 19354, 19217, 19083, 18950, 18821,
       18694, 18569, 18447, 18328, 18211, 18097, 17986, 17877, 17771, 17667, 17566, 17468, 17373, 17280,
       17189, 17102, 17017, 16934, 16854, 16777, 16702, 16630, 16560, 16492, 16428, 16365, 16305, 16248,
       16192, 16139, 16089, 16040, 15994, 15950, 15908, 15869, 15831, 15795, 15762, 15730, 15700, 15672,
       15646, 15622, 15599, 15578, 15558, 15541, 15524, 15509, 15496, 15483, 15472, 15463, 15454, 15447,
       15440, 15435, 15431, 15427, 15424, 15422, 15421, 15421, 15420, 15421, 15422, 15423, 15425, 15427,
       15429, 15431, 15434, 15436, 15438, 15441, 15443, 15445, 15446, 15448, 15449, 15449, 15449, 15449,
       15447, 15446, 15443, 15440, 15435, 15430, 15424, 15417, 15409, 15400, 15389, 15378, 15365, 15350,
       15335, 15318, 15300, 15280, 15259, 15236, 15211, 15185, 15157, 15128, 15096, 15063, 15028, 14991,
       14953, 14912, 14870, 14825, 14779, 14730, 14680, 14627, 14573, 14516, 14457, 14396, 14333, 14268,
       14201, 14131, 14060, 13986, 13910, 13831, 13751, 13668, 13583, 13496, 13407, 13316, 13222, 13126,
       13028, 12928, 12826, 12722, 12616, 12507, 12397, 12284, 12170, 12053, 11935, 11814, 11692, 11567,
       11441, 11313, 11184, 11052, 10919, 10784, 10647, 10509, 10369, 10228, 10085, 9941, 9795, 9648,
       9500, 9350, 9199, 9047, 8894, 8740, 8585, 8429, 8271, 8113, 7955, 7795, 7635, 7474,
       7313, 7151, 6988, 6825, 6662, 6499, 6335, 6171, 6007, 5843, 5679, 5515, 5351, 5187,
       5024, 4861, 4698, 4536, 4374, 4213, 4053, 3893, 3734, 3575, 3418, 3262, 3106, 2952,
       2798, 2646, 2495, 2345, 2197, 2050, 1905, 1761, 1618, 1477, 1338, 1201, 1065, 931,
       799, 669, 541, 415, 290, 168, 49, -69, -185, -298, -409, -517, -624, -728,
       -829, -928, -1024, -1118, -1210, -1299, -1385, -1468, -1549, -1628, -1703, -1776, -1846, -1914,
       -1978, -2040, -2100, -2156, -2210, -2261, -2309, -2354, -2397, -2437, -2474, -2508, -2539, -2568,
       -2594, -2618, -2638, -2656, -2672, -2684, -2694, -2702, -2707, -2709, -2709, -2706, -2701, -2693,
       -2683, -2671, -2656, -2640, -2620, -2599, -2576, -2550, -2523, -2493, -2462, -2428, -2393, -2356,
       -2317, -2277, -2235, -2191, -2146, -2100, -2052, -2003, -1953, -1901, -1849, -1795, -1741, -1686,
       -1630, -1573, -1516, -1458, -1399, -1340, -1281, -1222, -1162, -1103, -1043, -983, -924, -865,
       -806, -748, -690, -633, -576, -521, -466, -412, -359, -307, -257, -207, -159, -113,
       -68, -25, 16, 56, 94, 129, 163, 194, 224, 251, 275, 297, 316, 333,
       347, 358, 366, 371, 373, 372, 368, 361, 350, 335, 317, 296, 271, 242,
       209, 173, 132, 88, 40, -13, -70, -131, -196, -265, -339, -418, -500, -588,
       -680, -776, -877, -983, -1093, -1209, -1329, -1454, -1583, -1718, -1858, -2002, -2151, -2306,
       -2465, -2629, -2799, -2973, -3152, -3337, -3526, -3720, -3920, -4124, -4334, -4548, -4768, -4992,
       -5221, -5456, -5695, -5939, -6188, -6442, -6700, -6964, -7232, -7505, -7782, -8064, -8351, -8642,
       -8938, -9238, -9543, -9851, -10164, -10482, -10803, -11129, -11458, -11791, -12129, -12470, -12814, -13163,
       -13515, -13870, -14229, -14591, -14956, -15324, -15696, -16070, -16447, -16827, -17210, -17595, -17982, -18372,
       -18764, -19158, -19554, -19952, -20351, -20753, -21155, -21560, -21965, -22372, -22780, -23188, -23598, -24008,
       -24419, -24830, -25241, -25653, -26065, -26476, -26888, -27298, -27709, -28119, -28528, -28936, -29343, -29749,
       -30154, -30557, -30958, -31358, -31756, -32152, -32546, -32938, -33327, -33714, -34098, -34479, -34857, -35232,
       -35604, -35973, -36337, -36699, -37056, -37410, -37760, -38105, -38446, -38783, -39115, -39443, -39765, -40083,
       -40396, -40703, -41005, -41302, -41593, -41878, -42158, -42432, -42700, -42961, -43217, -43465, -43708, -43944,
       -44173, -44396, -44611, -44820, -45022, -45216, -45403, -45583, -45755, -45920, -46078, -46227, -46369, -46503,
       -46629, -46747, -46857, -46959, -47053, -47139, -47216, -47285, -47345, -47397, -47441, -47476, -47502, -47520,
       -47529, -47529, -47521, -47504, -47478, -47443, -47400, -47347, -47286, -47216, -47137, -47049, -46952, -46847,
       -46732, -46609, -46476, -46335, -46185, -46026, -45859, -45682, -45497, -45303, -45101, -44890, -44670, -44442,
       -44205, -43959, -43706, -43443, -43173, -42894, -42607, -42312, -42009, -41698, -41379, -41052, -40717, -40375,
       -40025, -39668, -39303, -38931, -38551, -38165, -37771, -37370, -36963, -36549, -36128, -35701, -35267, -34827,
       -34381, -33928, -33470, -33006, -32536, -32061, -31580, -31094, -30603, -30106, -29605, -29099, -28588, -28073,
       -27554, -27030, -26502, -25970, -25435, -24896, -24353, -23807, -23258, -22706, -22150, -21593, -21032, -20469,
       -19904, -19337, -18768, -18197, -17624, -17050, -16474, -15898, -15320, -14741, -14162, -13582, -13002, -12422,
       -11841, -11261, -10681, -10101, -9522, -8943, -8366, -7789, -7214, -6640, -6067, -5496, -4927, -4360,
       -3795, -3232, -2672, -2114, -1559, -1006, -457, 89, 633, 1172, 1708, 2241, 2770, 3294,
       3815, 4332, 4844, 5352, 5855, 6354, 6848, 7337, 7820, 8299, 8773, 9241, 9703, 10161,
       10612, 11058, 11497, 11931, 12359, 12781, 13196, 13605, 14008, 14404, 14794, 15177, 15553, 15923,
       16285, 16641, 16990, 17332, 17667, 17994, 18315, 18628, 18934, 19233, 19524, 19808, 20084, 20353,
       20615, 20869, 21115, 21354, 21586, 21810, 22026, 22234, 22435, 22629, 22815, 22993, 23164, 23327,
       23482, 23630, 23771, 23903, 24029, 24147, 24257, 24360, 24456, 24544, 24626, 24699, 24766, 24825,
       24878, 24923, 24961, 24992, 25017, 25034, 25045, 25049, 25047, 25038, 25022, 25000, 24972, 24937,
       24896, 24849, 24796, 24737, 24673, 24602, 24526, 24444, 24357, 24265, 24167, 24064, 23956, 23843,
       23725, 23603, 23475, 23344, 23207, 23067, 22922, 22773, 22621, 22464, 22304, 22140, 21972, 21801,
       21627, 21450, 21269, 21086, 20900, 20711, 20520, 20327, 20131, 19933, 19732, 19530, 19327, 19121,
       18914, 18705, 18496, 18285, 18073, 17860, 17646, 17431, 17216, 17001, 16785, 16569, 16353, 16137,
       15921, 15705, 15490, 15275, 15061, 14848, 14635, 14423, 14213, 14003, 13795, 13588, 13383, 13179,
       12977, 12777, 12579, 12383, 12188, 11996, 11807, 11619, 11434, 11252, 11072, 10895, 10721, 10549,
       10381, 10216, 10053, 9894, 9739, 9586, 9437, 9291, 9149, 9011, 8876, 8745, 8617, 8494,
       8374, 8258, 8147, 8039, 7935, 7835, 7740, 7648, 7561, 7478, 7399, 7325, 7255, 7189,
       7127, 7070, 7018, 6969, 6925, 6886, 6851, 6820, 6794, 6772, 6754, 6741, 6733, 6729,
       6729, 6733, 6742, 6756, 6773, 6795, 6821, 6852, 6886, 6925, 6968, 7016, 7067, 7122,
       7181, 7245, 7312, 7383, 7458, 7537, 7620, 7706, 7796, 7889, 7986, 8087, 8191, 8298,
       8409, 8522, 8639, 8759, 8883, 9009, 9138, 9270, 9404, 9541, 9681, 9824, 9968, 10116,
       10265, 10417, 10571, 10727, 10885, 11045, 11206, 11370, 11535, 11702, 11870, 12039, 12210, 12382,
       12556, 12730, 12905, 13081, 13258, 13436, 13615, 13793, 13973, 14153, 14333, 14513, 14693, 14874,
       15054, 15235, 15415, 15594, 15774, 15953, 16131, 16309, 16486, 16662, 16838, 17012, 17185, 17358,
       17529, 17699, 17868, 18035, 18201, 18365, 18527, 18688, 18848, 19005, 19161, 19314, 19466, 19615,
       19763, 19908, 20051, 20192, 20330, 20466, 20600, 20731, 20859, 20985, 21108, 21229, 21347, 21462,
       21574, 21683, 21790, 21893, 21994, 22092, 22186, 22278, 22366, 22451, 22534, 22613, 22689, 22761,
       22831, 22897, 22960, 23020, 23076, 23130, 23180, 23226, 23270, 23310, 23347, 23380, 23410, 23437,
       23461, 23481, 23499, 23513, 23523, 23531, 23535, 23536, 23534, 23529, 23520, 23509, 23494, 23477,
       23456, 23432, 23405, 23376, 23343, 23308, 23270, 23228, 23185, 23138, 23089, 23037, 22982, 22925,
       22865, 22803, 22738, 22671, 22602, 22530, 22456, 22380, 22301, 22221, 22138, 22054, 21967, 21879,
       21789, 21697, 21603, 21507, 21410, 21311, 21211, 21109, 21006, 20902, 20796, 20689, 20581, 20472,
       20361, 20250, 20137, 20024, 19910, 19795, 19679, 19563, 19446, 19329, 19211, 19092, 18973, 18854,
       18735, 18615, 18495, 18375, 18255, 18135, 18014, 17894, 17774, 17654, 17535, 17415, 17296, 17178,
       17059, 16941, 16824, 16707, 16590, 16475, 16359, 16245, 16131, 16018, 15905, 15794, 15683, 15573,
       15464, 15356, 15249, 15142, 15037, 14933, 14829, 14727, 14626, 14526, 14427, 14329, 14232, 14136,
       14042, 13948, 13856, 13764, 13674, 13585, 13498, 13411, 13325, 13241, 13158, 13076, 12995, 12915,
       12836, 12758, 12681, 12606, 12531, 12457, 12385, 12313, 12242, 12173, 12104, 12036, 11968, 11902,
       11836, 11771, 11707, 11643, 11580, 11518, 11456, 11395, 11334, 11274, 11214, 11154, 11095, 11035,
       10977, 10918, 10859, 10800, 10742, 10683, 10624, 10565, 10506, 10447, 10387, 10327, 10266, 10205,
       10143, 10081, 10018, 9954, 9889, 9824, 9758, 9690, 9622, 9552, 9482, 9410, 9336, 9262,
       9186, 9108, 9029, 8948, 8866, 8782, 8696, 8608, 8518, 8426, 8332, 8236, 8138, 8037,
       7935, 7830, 7722, 7612, 7499, 7384, 7266, 7146, 7022, 6896, 6767, 6635, 6500, 6362,
       6221, 6077, 5930, 5779, 5626, 5468, 5308, 5144, 4977, 4806, 4632, 4454, 4273, 4088,
       3899, 3707, 3511, 3311, 3108, 2900, 2689, 2474, 2256, 2033, 1807, 1576, 1342, 1104,
       862, 616, 367, 113, -145, -406, -672, -941, -1214, -1491, -1772, -2057, -2346, -2639,
       -2935, -3235, -3539, -3847, -4158, -4473, -4792, -5114, -5440, -5769, -6102, -6439, -6778, -7122,
       -7468, -7818, -8171, -8527, -8886, -9249, -9614, -9982, -10353, -10727, -11104, -11483, -11865, -12249,
       -12636, -13025, -13417, -13810, -14206, -14604, -15004, -15405, -15809, -16214, -16621, -17029, -17438, -17849,
       -18262, -18675, -19089, -19504, -19920, -20337, -20754, -21172, -21590, -22009, -22428, -22846, -23265, -23684,
       -24102, -24520, -24937, -25354, -25769, -26185, -26599, -27012, -27423, -27834, -28243, -28650, -29056, -29460,
       -29862, -30262, -30659, -31055, -31447, -31838, -32226, -32610, -32992, -33371, -33747, -34120, -34489, -34854,
       -35216, -35575, -35929, -36279, -36625, -36967, -37305, -37638, -37967, -38290, -38609, -38924, -39233, -39537,
       -39835, -40129, -40417, -40699, -40976, -41247, -41512, -41771, -42024, -42271, -42512, -42746, -42974, -43196,
       -43410, -43618, -43820, -44014, -44202, -44382, -44556, -44722, -44881, -45033, -45177, -45314, -45444, -45566,
       -45680, -45787, -45885, -45977, -46060, -46135, -46203, -46263, -46314, -46358, -46393, -46421, -46440, -46451,
       -46454, -46449, -46436, -46414, -46385, -46347, -46300, -46246, -46183, -46112, -46033, -45946, -45850, -45746,
       -45634, -45514, -45385, -45249, -45104, -44951, -44791, -44622, -44445, -44261, -44068, -43868, -43659, -43444,
       -43220, -42989, -42750, -42504, -42250, -41989, -41720, -41444, -41162, -40872, -40575, -40271, -39960, -39643,
       -39319, -38988, -38651, -38307, -37957, -37601, -37239, -36871, -36497, -36118, -35732, -35342, -34945, -34544,
       -34137, -33725, -33309, -32887, -32461, -32030, -31595, -31155, -30712, -30264, -29812, -29357, -28898, -28435,
       -27970, -27501, -27029, -26554, -26076, -25595, -25112, -24627, -24140, -23650, -23159, -22666, -22171, -21675,
       -21178, -20679, -20180, -19680, -19179, -18677, -18175, -17673, -17171, -16669, -16167, -15665, -15164, -14664,
       -14165, -13666, -13169, -12673, -12178, -11685, -11194, -10705, -10217, -9732, -9249, -8769, -8291, -7816,
       -7344, -6875, -6409, -5946, -5487, -5031, -4579, -4131, -3687, -3246, -2810, -2379, -1952, -1529,
       -1111, -698, -289, 114, 512, 905, 1292, 1675, 2051, 2422, 2787, 3147, 3500, 3848,
       4189, 4524, 4853, 5176, 5492, 5801, 6104, 6401, 6691, 6974, 7250, 7519, 7781, 8037,
       8285, 8526, 8760, 8987, 9207, 9419, 9624, 9822, 10013, 10196, 10372, 10540, 10701, 10855,
       11001, 11140, 11271, 11395, 11511, 11620, 11722, 11816, 11902, 11982, 12054, 12118, 12176, 12226,
       12269, 12304, 12333, 12354, 12368, 12375, 12375, 12368, 12354, 12334, 12306, 12272, 12232, 12184,
       12130, 12070, 12003, 11930, 11851, 11766, 11674, 11577, 11473, 11364, 11249, 11129, 11003, 10872,
       10735, 10593, 10446, 10294, 10137, 9975, 9809, 9638, 9463, 9283, 9099, 8911, 8719, 8523,
       8324, 8120, 7914, 7704, 7490, 7274, 7055, 6833, 6608, 6380, 6151, 5918, 5684, 5448,
       5210, 4970, 4728, 4485, 4240, 3995, 3748, 3500, 3252, 3003, 2753, 2503, 2253, 2002,
       1752, 1502, 1252, 1003, 754, 506, 258, 12, -233, -477, -720, -961, -1200, -1438,
       -1673, -1907, -2139, -2368, -2595, -2819, -3041, -3260, -3476, -3689, -3899, -4106, -4309, -4509,
       -4705, -4898, -5087, -5272, -5453, -5630, -5803, -5971, -6135, -6295, -6450, -6601, -6747, -6888,
       -7024, -7155, -7281, -7402, -7518, -7628, -7733, -7833, -7927, -8016, -8099, -8177, -8249, -8315,
       -8375, -8430, -8478, -8521, -8558, -8589, -8613, -8632, -8645, -8651, -8652, -8646, -8634, -8616,
       -8592, -8561, -8524, -8481, -8432, -8377, -8315, -8247, -8173, -8093, -8007, -7914, -7816, -7711,
       -7600, -7483, -7360, -7231, -7096, -6955, -6808, -6655, -6497, -6332, -6162, -5986, -5805, -5618,
       -5425, -5227, -5024, -4815, -4601, -4382, -4158, -3928, -3694, -3454, -3210, -2961, -2708, -2449,
       -2186, -1919, -1647, -1372, -1091, -807, -519, -227, 69, 369, 672, 979, 1289, 1602,
       1919, 2239, 2562, 2887, 3216, 3547, 3881, 4217, 4556, 4897, 5240, 5585, 5932, 6281,
       6632, 6984, 7338, 7693, 8049, 8406, 8765, 9124, 9484, 9845, 10207, 10569, 10931, 11293,
       11656, 12019, 12381, 12743, 13105, 13467, 13828, 14188, 14548, 14907, 15264, 15621, 15977, 16331,
       16684, 17035, 17385, 17733, 18079, 18423, 18765, 19106, 19444, 19779, 20113, 20444, 20772, 21098,
       21421, 21741, 22058, 22372, 22684, 22992, 23296, 23598, 23896, 24191, 24482, 24770, 25053, 25334,
       25610, 25883, 26151, 26416, 26676, 26933, 27185, 27434, 27678, 27917, 28153, 28384, 28610, 28832,
       29050, 29263, 29471, 29675, 29874, 30069, 30259, 30444, 30624, 30800, 30971, 31137, 31298, 31454,
       31606, 31753, 31895, 32032, 32164, 32291, 32414, 32532, 32644, 32752, 32855, 32954, 33047, 33136,
       33220, 33299, 33373, 33443, 33508, 33568, 33624, 33675, 33721, 33763, 33800, 33833, 33861, 33885,
       33904, 33920, 33930, 33937, 33939, 33937, 33931, 33921, 33906, 33888, 33866, 33840, 33810, 33776,
       33739, 33698, 33653, 33604, 33552, 33497, 33438, 33376, 33311, 33242, 33170, 33095, 33018, 32937,
       32853, 32766, 32677, 32585, 32490, 32393, 32293, 32190, 32086, 31979, 31869, 31758, 31644, 31529,
       31411, 31291, 31170, 31047, 30922, 30795, 30667, 30537, 30406, 30273, 30139, 30004, 29867, 29729,
       29590, 29451, 29310, 29168, 29025, 28882, 28738, 28593, 28447, 28301, 28154, 28007, 27859, 27711,
       27563, 27414, 27265, 27116, 26966, 26817, 26667, 26518, 26368, 26219, 26069, 25920, 25771, 25622,
       25473, 25325, 25176, 25028, 24881, 24734, 24587, 24440, 24294, 24149, 24003, 23859, 23715, 23571,
       23428, 23285, 23143, 23002, 22861, 22721, 22581, 22442, 22303, 22165, 22027, 21891, 21754, 21618,
       21483, 21349, 21214, 21081, 20948, 20815, 20683, 20552, 20420, 20290, 20159, 20029, 19900, 19771,
       19642, 19513, 19385, 19257, 19129, 19002, 18874, 18747, 18620, 18492, 18365, 18238, 18111, 17983,
       17856, 17728, 17601, 17473, 17344, 17216, 17087, 16957, 16827, 16697, 16566, 16434, 16302, 16169,
       16036, 15901, 15766, 15630, 15493, 15355, 15216, 15076, 14935, 14793, 14650, 14505, 14359, 14212,
       14063, 13913, 13761, 13608, 13453, 13297, 13138, 12979, 12817, 12654, 12488, 12321, 12152, 11981,
       11808, 11633, 11456, 11276, 11095, 10911, 10725, 10536, 10346, 10153, 9957, 9759, 9559, 9356,
       9151, 8943, 8732, 8519, 8304, 8085, 7864, 7640, 7414, 7185, 6953, 6718, 6481, 6240,
       5997, 5752, 5503, 5251, 4997, 4740, 4480, 4217, 3951, 3683, 3411, 3137, 2860, 2581,
       2298, 2013, 1725, 1434, 1140, 844, 545, 243, -61, -368, -677, -989, -1304, -1621,
       -1940, -2262, -2586, -2913, -3242, -3573, -3906, -4242, -4579, -4919, -5261, -5604, -5950, -6297,
       -6646, -6997, -7350, -7704, -8060, -8417, -8776, -9135, -9497, -9859, -10222, -10587, -10953, -11319,
       -11686, -12054, -12423, -12792, -13161, -13531, -13902, -14272, -14643, -15014, -15385, -15755, -16126, -16496,
       -16866, -17235, -17603, -17971, -18339, -18705, -19070, -19434, -19798, -20159, -20520, -20879, -21236, -21592,
       -21946, -22298, -22648, -22996, -23342, -23686, -24027, -24366, -24702, -25036, -25367, -25695, -26020, -26342,
       -26660, -26976, -27288, -27597, -27902, -28203, -28501, -28795, -29085, -29370, -29652, -29930, -30203, -30472,
       -30736, -30996, -31251, -31501, -31747, -31987, -32223, -32454, -32679, -32899, -33114, -33323, -33527, -33726,
       -33918, -34106, -34287, -34463, -34632, -34796, -34954, -35106, -35252, -35391, -35524, -35652, -35772, -35887,
       -35995, -36096, -36191, -36280, -36362, -36437, -36506, -36568, -36623, -36672, -36714, -36749, -36778, -36800,
       -36814, -36823, -36824, -36818, -36806, -36787, -36761, -36728, -36688, -36642, -36588, -36528, -36461, -36388,
       -36308, -36221, -36127, -36026, -35919, -35806, -35686, -35559, -35426, -35286, -35140, -34988, -34830, -34665,
       -34494, -34317, -34133, -33944, -33749, -33548, -33341, -33129, -32910, -32686, -32457, -32222, -31982, -31737,
       -31486, -31230, -30970, -30704, -30434, -30159, -29879, -29594, -29306, -29013, -28715, -28414, -28109, -27799,
       -27486, -27170, -26849, -26526, -26199, -25868, -25535, -25199, -24860, -24518, -24173, -23826, -23477, -23126,
       -22772, -22417, -22059, -21700, -21340, -20978, -20614, -20250, -19884, -19518, -19151, -18783, -18415, -18046,
       -17677, -17309, -16940, -16571, -16203, -15835, -15468, -15101, -14736, -14371, -14008, -13646, -13285, -12926,
       -12569, -12213, -11859, -11508, -11158, -10811, -10467, -10125, -9786, -9449, -9116, -8786, -8459, -8135,
       -7815, -7498, -7186, -6876, -6571, -6270, -5973, -5681, -5392, -5109, -4829, -4555, -4285, -4020,
       -3761, -3506, -3256, -3012, -2773, -2539, -2311, -2089, -1872, -1661, -1456, -1257, -1064, -877,
       -695, -521, -352, -189, -33, 116, 259, 396, 526, 650, 767, 877, 981, 1078,
       1168, 1251, 1328, 1397, 1460, 1516, 1565, 1608, 1643, 1672, 1694, 1708, 1716, 1718,
       1712, 1699, 1680, 1654, 1621, 1581, 1535, 1482, 1422, 1356, 1283, 1203, 1118, 1025,
       926, 821, 710, 593, 469, 339, 203, 62, -86, -239, -398, -563, -733, -909,
       -1090, -1277, -1469, -1665, -1867, -2074, -2286, -2502, -2723, -2948, -3178, -3412, -3650, -3893,
       -4139, -4389, -4643, -4900, -5161, -5426, -5693, -5964, -6237, -6513, -6792, -7074, -7358, -7644,
       -7933, -8224, -8516, -8810, -9106, -9403, -9702, -10001, -10302, -10604, -10906, -11210, -11513, -11817,
       -12121, -12425, -12729, -13033, -13336, -13639, -13941, -14242, -14542, -14841, -15139, -15435, -15730, -16023,
       -16314, -16603, -16890, -17175, -17458, -17737, -18014, -18289, -18560, -18828, -19093, -19354, -19612, -19867,
       -20117, -20364, -20606, -20845, -21079, -21309, -21534, -21755, -21970, -22181, -22387, -22588, -22783, -22974,
       -23158, -23338, -23511, -23679, -23841, -23997, -24147, -24291, -24429, -24560, -24685, -24804, -24915, -25021,
       -25119, -25211, -25296, -25374, -25445, -25509, -25566, -25616, -25658, -25693, -25721, -25742, -25755, -25761,
       -25759, -25750, -25733, -25708, -25676, -25636, -25589, -25534, -25471, -25401, -25322, -25236, -25143, -25041,
       -24932, -24815, -24691, -24558, -24418, -24271, -24115, -23953, -23782, -23604, -23418, -23225, -23024, -22816,
       -22600, -22377, -22147, -21909, -21665, -21413, -21154, -20888, -20614, -20334, -20047, -19754, -19453, -19146,
       -18833, -18512, -18186, -17853, -17514, -17169, -16817, -16460, -16097, -15728, -15353, -14973, -14587, -14196,
       -13800, -13398, -12991, -12580, -12163, -11742, -11316, -10886, -10451, -10012, -9569, -9122, -8671, -8217,
       -7758, -7296, -6831, -6363, -5891, -5416, -4939, -4458, -3975, -3490, -3002, -2513, -2021, -1527,
       -1031, -534, -35, 465, 967, 1469, 1973, 2477, 2983, 3488, 3994, 4501, 5007, 5514,
       6020, 6526, 7032, 7538, 8042, 8546, 9049, 9551, 10051, 10551, 11049, 11545, 12039, 12532,
       13023, 13512, 13998, 14482, 14964, 15443, 15920, 16394, 16864, 17332, 17797, 18258, 18716, 19170,
       19621, 20069, 20512, 20952, 21387, 21819, 22246, 22669, 23088, 23502, 23911, 24316, 24717, 25112,
       25503, 25888, 26269, 26645, 27015, 27380, 27740, 28094, 28443, 28786, 29124, 29456, 29783, 30104,
       30419, 30728, 31031, 31329, 31620, 31906, 32185, 32459, 32726, 32987, 33242, 33491, 33734, 33970,
       34200, 34424, 34642, 34854, 35059, 35258, 35450, 35637, 35817, 35990, 36158, 36319, 36474, 36623,
       36765, 36902, 37032, 37156, 37273, 37385, 37490, 37590, 37683, 37771, 37852, 37928, 37997, 38061,
       38119, 38171, 38217, 38258, 38293, 38322, 38346, 38365, 38378, 38385, 38388, 38385, 38377, 38364,
       38345, 38322, 38294, 38261, 38223, 38180, 38133, 38081, 38025, 37964, 37899, 37829, 37756, 37678,
       37596, 37510, 37420, 37327, 37229, 37128, 37024, 36916, 36804, 36690, 36571, 36450, 36326, 36199,
       36068, 35935, 35799, 35661, 35520, 35376, 35230, 35082, 34932, 34779, 34624, 34467, 34308, 34148,
       33986, 33822, 33656, 33489, 33320, 33150, 32979, 32807, 32633, 32459, 32283, 32107, 31930, 31752,
       31573, 31394, 31214, 31033, 30853, 30672, 30490, 30309, 30127, 29945, 29763, 29582, 29400, 29218,
       29037, 28856, 28675, 28494, 28314, 28135, 27956, 27777, 27599, 27422, 27245, 27069, 26894, 26720,
       26546, 26374, 26202, 26031, 25861, 25692, 25524, 25358, 25192, 25027, 24863, 24701, 24540, 24379,
       24220, 24062, 23906, 23750, 23596, 23442, 23291, 23140, 22990, 22842, 22695, 22549, 22404, 22261,
       22119, 21977, 21837, 21699, 21561, 21425, 21289, 21155, 21022, 20889, 20758, 20628, 20499, 20371,
       20244, 20117, 19992, 19867, 19743, 19620, 19498, 19377, 19256, 19136, 19016, 18898, 18779, 18661,
       18544, 18427, 18311, 18194, 18079, 17963, 17848, 17732, 17617, 17502, 17387, 17273, 17158, 17043,
       16927, 16812, 16696, 16581, 16464, 16348, 16231, 16114, 15996, 15877, 15758, 15639, 15518, 15397,
       15275, 15152, 15029, 14904, 14779, 14652, 14525, 14396, 14266, 14135, 14003, 13870, 13735, 13599,
       13461, 13322, 13182, 13040, 12897, 12752, 12605, 12457, 12307, 12156, 12003, 11848, 11691, 11532,
       11372, 11209, 11045, 10879, 10711, 10541, 10369, 10195, 10019, 9842, 9662, 9480, 9296, 9109,
       8921, 8731, 8539, 8344, 8148, 7949, 7748, 7546, 7341, 7134, 6925, 6714, 6501, 6286,
       6068, 5849, 5628, 5405, 5180, 4953, 4724, 4493, 4260, 4025, 3789, 3550, 3310, 3069,
       2825, 2580, 2333, 2085, 1835, 1584, 1331, 1077, 821, 564, 306, 46, -215, -476,
       -739, -1003, -1268, -1534, -1801, -2068, -2337, -2605, -2875, -3145, -3416, -3687, -3958, -4230,
       -4502, -4774, -5046, -5318, -5590, -5863, -6134, -6406, -6677, -6948, -7218, -7488, -7757, -8026,
       -8293, -8560, -8826, -9091, -9355, -9617, -9879, -10139, -10397, -10654, -10910, -11164, -11416, -11666,
       -11915, -12161, -12406, -12648, -12888, -13126, -13362, -13595, -13825, -14053, -14279, -14502, -14722, -14939,
       -15153, -15364, -15572, -15777, -15979, -16177, -16372, -16564, -16752, -16937, -17118, -17295, -17469, -17639,
       -17805, -17967, -18125, -18279, -18429, -18575, -18717, -18855, -18988, -19117, -19242, -19362, -19478, -19589,
       -19696, -19799, -19896, -19989, -20078, -20162, -20241, -20316, -20385, -20450, -20510, -20566, -20616, -20662,
       -20703, -20739, -20770, -20796, -20818, -20835, -20846, -20853, -20855, -20852, -20845, -20832, -20815, -20792,
       -20766, -20734, -20697, -20656, -20610, -20560, -20504, -20445, -20380, -20311, -20238, -20160, -20078, -19991,
       -19900, -19805, -19705, -19601, -19494, -19382, -19266, -19146, -19022, -18894, -18763, -18628, -18489, -18347,
       -18201, -18052, -17900, -17744, -17585, -17423, -17258, -17090, -16919, -16746, -16569, -16391, -16209, -16026,
       -15840, -15651, -15461, -15269, -15074, -14878, -14681, -14481, -14280, -14078, -13875, -13670, -13464, -13257,
       -13050, -12841, -12632, -12422, -12212, -12002, -11791, -11581, -11370, -11160, -10949, -10739, -10530, -10321,
       -10113, -9906, -9699, -9494, -9290, -9087, -8885, -8685, -8487, -8290, -8095, -7902, -7711, -7523,
       -7336, -7152, -6971, -6792, -6615, -6442, -6271, -6104, -5939, -5778, -5620, -5466, -5315, -5168,
       -5024, -4884, -4749, -4617, -4489, -4365, -4246, -4131, -4020, -3914, -3813, -3716, -3624, -3537,
       -3455, -3377, -3305, -3238, -3175, -3119, -3067, -3021, -2980, -2945, -2915, -2890, -2872, -2859,
       -2851, -2850, -2854, -2864, -2880, -2901, -2929, -2962, -3002, -3047, -3098, -3156, -3219, -3288,
       -3364, -3445, -3533, -3626, -3726, -3831, -3943, -4060, -4184, -4314, -4449, -4590, -4738, -4891,
       -5050, -5215, -5386, -5562, -5744, -5932, -6125, -6324, -6529, -6739, -6954, -7175, -7401, -7632,
       -7869, -8110, -8357, -8608, -8864, -9125, -9391, -9662, -9937, -10216, -10500, -10788, -11080, -11377,
       -11677, -11981, -12289, -12601, -12916, -13235, -13557, -13882, -14210, -14542, -14876, -15213, -15553, -15895,
       -16240, -16587, -16936, -17287, -17640, -17995, -18351, -18709, -19068, -19429, -19790, -20153, -20516, -20880,
       -21245, -21610, -21975, -22340, -22705, -23071, -23435, -23800, -24163, -24526, -24888, -25249, -25609, -25968,
       -26324, -26680, -27033, -27385, -27735, -28082, -28427, -28769, -29109, -29446, -29780, -30112, -30439, -30764,
       -31085, -31402, -31716, -32025, -32331, -32632, -32929, -33222, -33510, -33793, -34071, -34345, -34613, -34876,
       -35134, -35386, -35633, -35874, -36109, -36338, -36561, -36778, -36989, -37193, -37391, -37582, -37766, -37944,
       -38115, -38279, -38435, -38585, -38727, -38862, -38989, -39109, -39221, -39326, -39423, -39512, -39593, -39666,
       -39731, -39788, -39837, -39878, -39911, -39935, -39951, -39958, -39957, -39948, -39930, -39904, -39869, -39825,
       -39773, -39713, -39643, -39565, -39478, -39383, -39279, -39166, -39045, -38915, -38776, -38628, -38472, -38307,
       -38134, -37952, -37761, -37562, -37354, -37138, -36914, -36681, -36439, -36190, -35932, -35665, -35391, -35108,
       -34818, -34519, -34213, -33898, -33576, -33246, -32909, -32564, -32211, -31851, -31484, -31109, -30727, -30338,
       -29943, -29540, -29130, -28714, -28292, -27863, -27427, -26986, -26538, -26084, -25624, -25159, -24688, -24211,
       -23729, -23242, -22749, -22252, -21749, -21242, -20730, -20214, -19693, -19168, -18639, -18106, -17570, -17029,
       -16486, -15938, -15388, -14834, -14278, -13719, -13157, -12592, -12026, -11457, -10886, -10313, -9738, -9162,
       -8585, -8006, -7426, -6845, -6263, -5681, -5098, -4515, -3932, -3348, -2765, -2182, -1599, -1017,
       -435, 145, 725, 1303, 1880, 2456, 3030, 3602, 4173, 4741, 5307, 5871, 6433, 6992,
       7548, 8101, 8652, 9199, 9743, 10283, 10820, 11354, 11883, 12409, 12931, 13448, 13962, 14471,
       14975, 15475, 15970, 16460, 16946, 17426, 17902, 18372, 18836, 19296, 19749, 20198, 20640, 21077,
       21507, 21932, 22351, 22764, 23170, 23571, 23965, 24352, 24733, 25108, 25476, 25837, 26192, 26540,
       26881, 27215, 27543, 27863, 28177, 28483, 28783, 29075, 29361, 29639, 29910, 30174, 30431, 30680,
       30923, 31158, 31386, 31606, 31820, 32026, 32225, 32417, 32601, 32779, 32949, 33112, 33268, 33416,
       33558, 33692, 33820, 33940, 34053, 34160, 34259, 34352, 34438, 34517, 34589, 34654, 34713, 34765,
       34811, 34850, 34883, 34909, 34929, 34943, 34951, 34952, 34948, 34937, 34921, 34899, 34871, 34837,
       34798, 34753, 34703, 34647, 34587, 34521, 34450, 34374, 34293, 34207, 34117, 34022, 33922, 33818,
       33710, 33597, 33480, 33360, 33235, 33106, 32974, 32838, 32699, 32556, 32410, 32260, 32107, 31952,
       31793, 31632, 31468, 31301, 31132, 30961, 30787, 30611, 30433, 30253, 30071, 29887, 29702, 29515,
       29327, 29137, 28946, 28754, 28561, 28366, 28171, 27976, 27779, 27582, 27385, 27187, 26989, 26791,
       26592, 26394, 26196, 25998, 25800, 25602, 25405, 25209, 25013, 24818, 24623, 24430, 24237, 24045,
       23855, 23665, 23477, 23290, 23105, 22920, 22738, 22557, 22377, 22199, 22023, 21849, 21676, 21506,
       21337, 21170, 21006, 20843, 20683, 20525, 20369, 20215, 20064, 19915, 19768, 19624, 19482, 19342,
       19205, 19071, 18939, 18809, 18683, 18558, 18437, 18318, 18201, 18087, 17976, 17867, 17762, 17658,
       17558, 17460, 17364, 17272, 17181, 17094, 17009, 16927, 16847, 16770, 16695, 16623, 16554, 16487,
       16422, 16360, 16300, 16243, 16188, 16135, 16084, 16036, 15990, 15946, 15905, 15865, 15828, 15792,
       15759, 15727, 15698, 15670, 15644, 15620, 15597, 15576, 15557, 15539, 15523, 15508, 15494, 15482,
       15472, 15462, 15454, 15446, 15440, 15435, 15430, 15427, 15424, 15422, 15421, 15420, 15420, 15421,
       15422, 15423, 15425, 15427, 15429, 15431, 15434, 15436, 15439, 15441, 15443, 15445, 15447, 15448,
       15449, 15449, 15449, 15449, 15447, 15445, 15443, 15439, 15435, 15430, 15423, 15416, 15408, 15399,
       15388, 15376, 15363, 15349, 15334, 15316, 15298, 15278, 15257, 15233, 15209, 15183, 15155, 15125,
       15093, 15060, 15025, 14988, 14949, 14909, 14866, 14821, 14775, 14726, 14675, 14623, 14568, 14511,
       14452, 14391, 14328, 14262, 14195, 14125, 14053, 13979, 13903, 13824, 13744, 13661, 13576, 13488,
       13399, 13307, 13214, 13118, 13020, 12919, 12817, 12713, 12606, 12498, 12387, 12274, 12159, 12043,
       11924, 11803, 11681, 11556, 11430, 11302, 11172, 11040, 10907, 10772, 10635, 10497, 10357, 10215,
       10072, 9928, 9782, 9635, 9487, 9337, 9186, 9034, 8881, 8726, 8571, 8415, 8257, 8099,
       7941, 7781, 7621, 7460, 7298, 7136, 6974, 6811, 6648, 6484, 6320, 6156, 5992, 5828,
       5664, 5500, 5337, 5173, 5010, 4847, 4684, 4522, 4360, 4199, 4038, 3879, 3720, 3561,
       3404, 3248, 3092, 2938, 2785, 2633, 2482, 2332, 2184, 2037, 1892, 1748, 1605, 1465,
       1326, 1188, 1053, 919, 787, 657, 529, 403, 279, 158, 38, -80, -195, -308,
       -419, -527, -633, -737, -838, -937, -1033, -1127, -1218, -1306, -1392, -1476, -1556, -1634,
       -1710, -1782, -1852, -1920, -1984, -2046, -2105, -2161, -2214, -2265, -2313, -2358, -2400, -2440,
       -2477, -2511, -2542, -2571, -2597, -2620, -2640, -2658, -2673, -2685, -2695, -2702, -2707, -2709,
       -2709, -2706, -2700, -2692, -2682, -2670, -2655, -2638, -2619, -2597, -2574, -2548, -2520, -2490,
       -2459, -2425, -2390, -2353, -2314, -2273, -2231, -2187, -2142, -2096, -2048, -1999, -1948, -1897,
       -1844, -1791, -1736, -1681, -1625, -1568, -1510, -1452, -1394, -1335, -1276, -1216, -1157, -1097,
       -1038, -978, -919, -860, -801, -743, -685, -628, -571, -516, -461, -407, -354, -303,
       -252, -203, -155, -109, -64, -21, 20, 59, 97, 132, 166, 197, 226, 253,
       277, 299, 318, 334, 348, 359, 367, 372, 373, 372, 368, 360, 348, 334,
       316, 294, 268, 239, 206, 169, 129, 84, 35, -18, -75, -136, -202, -272,
       -346, -425, -508, -596, -688, -785, -886, -993, -1104, -1219, -1340, -1465, -1595, -1730,
       -1870, -2015, -2165, -2320, -2479, -2644, -2814, -2989, -3169, -3353, -3543, -3738, -3938, -4143,
       -4353, -4567, -4787, -5012, -5242, -5477, -5716, -5961, -6210, -6464, -6724, -6987, -7256, -7529,
       -7807, -8090, -8377, -8668, -8964, -9265, -9570, -9879, -10192, -10510, -10832, -11158, -11487, -11821,
       -12159, -12500, -12845, -13194, -13546, -13902, -14261, -14623, -14989, -15357, -15729, -16104, -16481, -16861,
       -17244, -17629, -18017, -18406, -18799, -19193, -19589, -19987, -20387, -20788, -21191, -21596, -22001, -22408,
       -22816, -23225, -23634, -24045, -24455, -24867, -25278, -25690, -26101, -26513, -26924, -27335, -27745, -28155,
       -28564, -28972, -29379, -29785, -30190, -30593, -30994, -31394, -31792, -32187, -32581, -32973, -33362, -33748,
       -34132, -34513, -34890, -35265, -35637, -36005, -36370, -36731, -37088, -37441, -37791, -38136, -38476, -38813,
       -39144, -39472, -39794, -40111, -40423, -40730, -41032, -41328, -41619, -41904, -42183, -42456, -42723, -42984,
       -43239, -43487, -43729, -43965, -44193, -44415, -44630, -44838, -45039, -45233, -45419, -45599, -45770, -45935,
       -46091, -46240, -46381, -46515, -46640, -46757, -46867, -46968, -47061, -47146, -47222, -47291, -47350, -47402,
       -47444, -47478, -47504, -47521, -47529, -47529, -47520, -47502, -47475, -47440, -47395, -47342, -47280, -47209,
       -47130, -47041, -46943, -46837, -46721, -46597, -46464, -46322, -46171, -46012, -45843, -45666, -45480, -45286,
       -45082, -44871, -44650, -44421, -44183, -43937, -43683, -43420, -43148, -42869, -42581, -42286, -41982, -41670,
       -41350, -41023, -40687, -40344, -39994, -39636, -39270, -38897, -38517, -38130, -37736, -37334, -36926, -36512,
       -36090, -35662, -35228, -34787, -34341, -33888, -33429, -32964, -32494, -32018, -31537, -31051, -30559, -30062,
       -29560, -29054, -28543, -28027, -27507, -26983, -26455, -25923, -25387, -24848, -24305, -23758, -23209, -22656,
       -22101, -21543, -20982, -20419, -19854, -19286, -18717, -18146, -17573, -16999, -16423, -15846, -15269, -14690,
       -14111, -13531, -12951, -12370, -11790, -11209, -10629, -10050, -9470, -8892, -8315, -7738, -7163, -6589,
       -6017, -5446, -4877, -4310, -3745, -3182, -2622, -2065, -1510, -957, -408, 138, 681, 1220,
       1756, 2288, 2816, 3341, 3861, 4378, 4889, 5397, 5900, 6398, 6891, 7380, 7863, 8341,
       8814, 9282, 9744, 10201, 10652, 11097, 11536, 11970, 12397, 12818, 13233, 13641, 14043, 14439,
       14828, 15211, 15586, 15955, 16317, 16673, 17021, 17362, 17696, 18023, 18343, 18655, 18961, 19259,
       19549, 19833, 20108, 20377, 20638, 20891, 21137, 21375, 21606, 21829, 22045, 22253, 22453, 22646,
       22831, 23008, 23178, 23341, 23496, 23643, 23783, 23915, 24040, 24157, 24267, 24369, 24464, 24552,
       24632, 24706, 24772, 24830, 24882, 24927, 24964, 24995, 25019, 25036, 25046, 25049, 25046, 25036,
       25020, 24998, 24969, 24934, 24892, 24845, 24791, 24732, 24667, 24596, 24519, 24437, 24349, 24256,
       24158, 24055, 23946, 23833, 23714, 23591, 23464, 23332, 23195, 23054, 22909, 22760, 22607, 22450,
       22289, 22125, 21957, 21786, 21611, 21434, 21253, 21070, 20883, 20695, 20503, 20309, 20113, 19915,
       19715, 19512, 19308, 19103, 18895, 18687, 18477, 18266, 18054, 17841, 17627, 17412, 17197, 16982,
       16766, 16550, 16334, 16118, 15902, 15686, 15471, 15256, 15042, 14829, 14616, 14405, 14194, 13985,
       13777, 13570, 13365, 13161, 12960, 12760, 12561, 12365, 12171, 11979, 11790, 11603, 11418, 11236,
       11056, 10879, 10705, 10534, 10366, 10201, 10039, 9880, 9725, 9573, 9424, 9279, 9137, 8999,
       8864, 8733, 8606, 8483, 8364, 8248, 8137, 8029, 7926, 7827, 7731, 7640, 7554, 7471,
       7393, 7319, 7249, 7183, 7122, 7065, 7013, 6965, 6922, 6882, 6848, 6817, 6792, 6770,
       6753, 6740, 6732, 6728, 6729, 6734, 6743, 6757, 6775, 6797, 6824, 6855, 6890, 6929,
       6972, 7020, 7072, 7127, 7187, 7251, 7318, 7390, 7465, 7544, 7627, 7714, 7804, 7898,
       7995, 8096, 8200, 8308, 8419, 8533, 8650, 8770, 8894, 9020, 9149, 9281, 9416, 9554,
       9694, 9836, 9981, 10129, 10279, 10431, 10585, 10741, 10899, 11059, 11221, 11384, 11550, 11716,
       11885, 12054, 12225, 12398, 12571, 12745, 12921, 13097, 13274, 13452, 13630, 13809, 13989, 14169,
       14349, 14529, 14709, 14890, 15070, 15251, 15431, 15610, 15790, 15969, 16147, 16325, 16502, 16678,
       16853, 17027, 17201, 17373, 17544, 17714, 17882, 18050, 18215, 18379, 18542, 18703, 18862, 19019,
       19174, 19328, 19479, 19629, 19776, 19921, 20064, 20204, 20342, 20478, 20612, 20742, 20871, 20996,
       21119, 21240, 21357, 21472, 21584, 21693, 21799, 21902, 22003, 22100, 22194, 22286, 22374, 22459,
       22541, 22620, 22695, 22768, 22837, 22903, 22965, 23025, 23081, 23134, 23184, 23230, 23273, 23313,
       23350, 23383, 23413, 23440, 23463, 23483, 23500, 23514, 23524, 23531, 23535, 23536, 23534, 23528,
       23519, 23508, 23493, 23475, 23454, 23430, 23403, 23373, 23340, 23305, 23266, 23225, 23181, 23134,
       23084, 23032, 22977, 22920, 22860, 22797, 22732, 22665, 22595, 22524, 22449, 22373, 22294, 22214,
       22131, 22046, 21960, 21871, 21781, 21688, 21594, 21499, 21401, 21303, 21202, 21100, 20997, 20893,
       20787, 20680, 20571, 20462, 20351, 20240, 20127, 20014, 19900, 19785, 19669, 19553, 19436, 19318,
       19200, 19082, 18963, 18844, 18724, 18604, 18484, 18364, 18244, 18124, 18004, 17884, 17764, 17644,
       17524, 17405, 17286, 17167, 17049, 16931, 16813, 16696, 16580, 16464, 16349, 16235, 16121, 16008,
       15895, 15784, 15673, 15563, 15454, 15346, 15239, 15133, 15028, 14924, 14820, 14718, 14617, 14517,
       14418, 14320, 14223, 14128, 14033, 13940, 13848, 13756, 13666, 13578, 13490, 13403, 13318, 13234,
       13151, 13068, 12988, 12908, 12829, 12751, 12675, 12599, 12525, 12451, 12378, 12307, 12236, 12166,
       12098, 12030, 11962, 11896, 11830, 11765, 11701, 11638, 11575, 11513, 11451, 11390, 11329, 11268,
       11208, 11149, 11089, 11030, 10971, 10913, 10854, 10795, 10737, 10678, 10619, 10560, 10501, 10441,
       10381, 10321, 10261, 10199, 10138, 10075, 10012, 9948, 9884, 9818, 9752, 9684, 9616, 9546,
       9475, 9403, 9330, 9255, 9179, 9101, 9022, 8941, 8858, 8774, 8688, 8600, 8510, 8418,
       8324, 8227, 8129, 8028, 7925, 7820, 7712, 7602, 7489, 7374, 7256, 7135, 7011, 6885,
       6756, 6623, 6488, 6350, 6209, 6064, 5917, 5766, 5612, 5454, 5294, 5129, 4962, 4791,
       4616, 4438, 4256, 4071, 3882, 3689, 3493, 3293, 3089, 2882, 2670, 2455, 2236, 2013,
       1786, 1556, 1321, 1083, 841, 594, 344, 90, -168, -430, -695, -965, -1239, -1516,
       -1798, -2083, -2372, -2665, -2961, -3262, -3566, -3874, -4186, -4501, -4820, -5143, -5469, -5799,
       -6132, -6469, -6809, -7152, -7499, -7849, -8202, -8559, -8918, -9281, -9646, -10015, -10386, -10760,
       -11137, -11517, -11899, -12283, -12670, -13060, -13451, -13845, -14241, -14639, -15039, -15441, -15845, -16250,
       -16657, -17065, -17475, -17886, -18298, -18712, -19126, -19541, -19957, -20374, -20792, -21209, -21628, -22046,
       -22465, -22884, -23302, -23721, -24139, -24557, -24974, -25390, -25806, -26221, -26635, -27048, -27460, -27870,
       -28279, -28686, -29092, -29496, -29897, -30297, -30694, -31090, -31482, -31872, -32260, -32645, -33026, -33405,
       -33780, -34153, -34521, -34887, -35248, -35606, -35960, -36310, -36656, -36997, -37335, -37667, -37995, -38319,
       -38638, -38951, -39260, -39563, -39862, -40155, -40442, -40724, -41000, -41271, -41535, -41794, -42046, -42293,
       -42533, -42767, -42994, -43215, -43429, -43637, -43837, -44031, -44218, -44398, -44571, -44736, -44895, -45046,
       -45190, -45326, -45455, -45576, -45690, -45796, -45894, -45984, -46067, -46142, -46209, -46267, -46318, -46361,
       -46396, -46423, -46442, -46452, -46454, -46448, -46434, -46412, -46382, -46343, -46296, -46241, -46177, -46106,
       -46026, -45937, -45841, -45736, -45624, -45503, -45374, -45236, -45091, -44938, -44776, -44607, -44429, -44244,
       -44051, -43849, -43641, -43424, -43200, -42968, -42728, -42481, -42227, -41965, -41696, -41420, -41136, -40846,
       -40548, -40244, -39932, -39614, -39290, -38958, -38621, -38276, -37926, -37570, -37207, -36838, -36464, -36084,
       -35698, -35307, -34910, -34508, -34101, -33688, -33271, -32849, -32423, -31992, -31556, -31116, -30672, -30224,
       -29772, -29316, -28857, -28394, -27928, -27459, -26986, -26511, -26033, -25553, -25069, -24584, -24096, -23607,
       -23115, -22622, -22127, -21631, -21134, -20635, -20135, -19635, -19134, -18632, -18130, -17628, -17126, -16624,
       -16122, -15621, -15120, -14620, -14120, -13622, -13125, -12629, -12134, -11642, -11151, -10661, -10174, -9689,
       -9207, -8726, -8249, -7774, -7302, -6833, -6368, -5905, -5446, -4991, -4539, -4091, -3647, -3208,
       -2772, -2341, -1914, -1492, -1074, -661, -253, 149, 547, 940, 1327, 1708, 2084, 2455,
       2820, 3178, 3531, 3878, 4219, 4554, 4882, 5204, 5519, 5829, 6131, 6427, 6716, 6998,
       7274, 7543, 7804, 8059, 8307, 8547, 8781, 9007, 9226, 9438, 9642, 9839, 10029, 10212,
       10387, 10555, 10715, 10868, 11014, 11152, 11282, 11405, 11521, 11629, 11730, 11824, 11910, 11988,
       12060, 12124, 12180, 12230, 12272, 12307, 12335, 12355, 12369, 12375, 12375, 12367, 12353, 12332,
       12304, 12269, 12228, 12180, 12125, 12064, 11997, 11923, 11844, 11758, 11666, 11568, 11464, 11354,
       11239, 11118, 10992, 10860, 10723, 10580, 10433, 10280, 10123, 9961, 9794, 9623, 9447, 9267,
       9082, 8894, 8702, 8506, 8306, 8102, 7895, 7685, 7471, 7255, 7035, 6813, 6588, 6360,
       6130, 5898, 5663, 5427, 5188, 4948, 4706, 4463, 4219, 3973, 3726, 3478, 3230, 2981,
       2731, 2481, 2231, 1980, 1730, 1480, 1230, 980, 732, 484, 236, -10, -255, -499,
       -741, -982, -1221, -1459, -1694, -1928, -2159, -2388, -2615, -2839, -3061, -3279, -3495, -3708,
       -3917, -4124, -4327, -4527, -4723, -4915, -5103, -5288, -5469, -5645, -5818, -5986, -6150, -6309,
       -6464, -6614, -6759, -6900, -7035, -7166, -7292, -7412, -7528, -7638, -7742, -7842, -7935, -8024,
       -8106, -8183, -8255, -8320, -8380, -8434, -8482, -8525, -8561, -8591, -8615, -8634, -8646, -8652,
       -8651, -8645, -8633, -8614, -8589, -8558, -8521, -8477, -8428, -8372, -8309, -8241, -8167, -8086,
       -7999, -7906, -7807, -7701, -7590, -7472, -7349, -7219, -7083, -6942, -6795, -6641, -6482, -6317,
       -6147, -5970, -5788, -5601, -5408, -5210, -5006, -4796, -4582, -4362, -4137, -3908, -3673, -3433,
       -3188, -2939, -2685, -2426, -2163, -1895, -1623, -1347, -1066, -782, -493, -201, 95, 395,
       699, 1006, 1316, 1630, 1947, 2267, 2590, 2916, 3245, 3577, 3911, 4247, 4586, 4927,
       5271, 5616, 5963, 6312, 6663, 7015, 7369, 7724, 8081, 8438, 8797, 9156, 9516, 9877,
       10239, 10601, 10963, 11326, 11688, 12051, 12413, 12776, 13138, 13499, 13860, 14220, 14580, 14938,
       15296, 15653, 16008, 16362, 16715, 17066, 17416, 17763, 18109, 18454, 18796, 19136, 19474, 19809,
       20142, 20473, 20801, 21127, 21449, 21769, 22086, 22400, 22711, 23019, 23323, 23625, 23922, 24217,
       24508, 24795, 25078, 25358, 25634, 25907, 26175, 26439, 26699, 26956, 27208, 27455, 27699, 27938,
       28173, 28404, 28630, 28852, 29069, 29281, 29489, 29693, 29892, 30086, 30275, 30460, 30640, 30815,
       30986, 31151, 31312, 31468, 31619, 31766, 31907, 32044, 32176, 32302, 32425, 32542, 32654, 32762,
       32864, 32962, 33055, 33144, 33227, 33306, 33380, 33449, 33513, 33573, 33628, 33679, 33725, 33766,
       33803, 33836, 33863, 33887, 33906, 33921, 33931, 33937, 33939, 33937, 33930, 33920, 33905, 33886,
       33864, 33837, 33807, 33773, 33735, 33694, 33649, 33600, 33548, 33492, 33433, 33370, 33305, 33236,
       33164, 33089, 33010, 32929, 32845, 32758, 32669, 32576, 32481, 32384, 32284, 32181, 32076, 31969,
       31859, 31748, 31634, 31518, 31400, 31281, 31159, 31036, 30910, 30784, 30655, 30525, 30394, 30261,
       30127, 29991, 29855, 29717, 29578, 29438, 29297, 29155, 29013, 28869, 28725, 28580, 28434, 28288,
       28141, 27994, 27846, 27698, 27549, 27401, 27252, 27102, 26953, 26804, 26654, 26505, 26355, 26205,
       26056, 25907, 25758, 25609, 25460, 25311, 25163, 25015, 24868, 24720, 24574, 24427, 24281, 24136,
       23991, 23846, 23702, 23558, 23415, 23273, 23131, 22989, 22848, 22708, 22568, 22429, 22291, 22153,
       22015, 21878, 21742, 21606, 21471, 21337, 21203, 21069, 20936, 20803, 20671, 20540, 20409, 20278,
       20148, 20018, 19888, 19759, 19630, 19502, 19374, 19246, 19118, 18990, 18863, 18736, 18608, 18481,
       18354, 18227, 18099, 17972, 17845, 17717, 17589, 17461, 17333, 17204, 17075, 16946, 16816, 16685,
       16554, 16423, 16290, 16157, 16024, 15889, 15754, 15618, 15481, 15343, 15204, 15064, 14923, 14780,
       14637, 14492, 14346, 14198, 14049, 13899, 13747, 13594, 13439, 13283, 13124, 12964, 12803, 12639,
       12474, 12306, 12137, 11966, 11793, 11617, 11440, 11260, 11078, 10894, 10708, 10520, 10329, 10135,
       9940, 9742, 9541, 9338, 9132, 8924, 8714, 8500, 8284, 8066, 7844, 7620, 7394, 7164,
       6932, 6697, 6459, 6219, 5976, 5730, 5481, 5229, 4974, 4717, 4457, 4193, 3928, 3659,
       3387, 3113, 2836, 2556, 2273, 1987, 1699, 1408, 1114, 818, 518, 217, -88, -395,
       -705, -1017, -1332, -1649, -1969, -2291, -2615, -2942, -3271, -3602, -3936, -4272, -4609, -4949,
       -5291, -5635, -5981, -6328, -6678, -7029, -7381, -7736, -8091, -8449, -8807, -9167, -9529, -9891,
       -10255, -10619, -10985, -11351, -11719, -12087, -12455, -12825, -13194, -13564, -13935, -14305, -14676, -15047,
       -15418, -15788, -16159, -16529, -16898, -17268, -17636, -18004, -18371, -18737, -19103, -19467, -19830, -20191,
       -20552, -20911, -21268, -21623, -21977, -22329, -22679, -23027, -23373, -23716, -24057, -24396, -24732, -25065,
       -25396, -25724, -26048, -26370, -26689, -27004, -27316, -27624, -27929, -28230, -28527, -28821, -29110, -29396,
       -29677, -29954, -30227, -30495, -30759, -31019, -31273, -31523, -31768, -32009, -32244, -32474, -32699, -32918,
       -33133, -33342, -33545, -33743, -33935, -34122, -34303, -34478, -34647, -34811, -34968, -35119, -35264, -35403,
       -35536, -35662, -35783, -35897, -36004, -36105, -36199, -36287, -36369, -36444, -36512, -36573, -36628, -36676,
       -36718, -36752, -36780, -36801, -36815, -36823, -36824, -36817, -36804, -36785, -36758, -36725, -36684, -36637,
       -36583, -36523, -36455, -36381, -36300, -36212, -36118, -36017, -35910, -35796, -35675, -35548, -35414, -35274,
       -35127, -34974, -34815, -34650, -34478, -34301, -34117, -33927, -33731, -33530, -33322, -33109, -32891, -32666,
       -32436, -32201, -31961, -31715, -31464, -31207, -30946, -30680, -30409, -30134, -29854, -29569, -29280, -28986,
       -28689, -28387, -28081, -27772, -27458, -27141, -26821, -26497, -26169, -25839, -25505, -25169, -24829, -24487,
       -24142, -23795, -23446, -23094, -22741, -22385, -22027, -21668, -21307, -20945, -20582, -20217, -19852, -19485,
       -19118, -18750, -18382, -18013, -17645, -17276, -16907, -16538, -16170, -15802, -15435, -15069, -14703, -14339,
       -13976, -13614, -13253, -12894, -12537, -12181, -11828, -11477, -11127, -10781, -10436, -10095, -9756, -9420,
       -9087, -8757, -8430, -8107, -7787, -7470, -7158, -6849, -6544, -6244, -5947, -5655, -5367, -5084,
       -4805, -4531, -4261, -3997, -3738, -3483, -3234, -2990, -2752, -2519, -2291, -2069, -1853, -1643,
       -1438, -1240, -1047, -860, -680, -505, -337, -175, -20, 129, 272, 408, 537, 660,
       777, 886, 989, 1086, 1175, 1258, 1334, 1403, 1465, 1521, 1569, 1611, 1646, 1674,
       1695, 1709, 1717, 1717, 1711, 1698, 1678, 1651, 1618, 1577, 1530, 1477, 1416, 1349,
       1276, 1196, 1110, 1017, 917, 812, 700, 582, 458, 327, 191, 49, -99, -253,
       -413, -578, -749, -925, -1107, -1294, -1486, -1683, -1885, -2093, -2305, -2521, -2743, -2968,
       -3199, -3433, -3672, -3914, -4161, -4412, -4666, -4923, -5185, -5449, -5717, -5988, -6262, -6538,
       -6817, -7099, -7383, -7670, -7959, -8249, -8542, -8836, -9132, -9430, -9728, -10028, -10329, -10631,
       -10933, -11236, -11540, -11844, -12148, -12452, -12756, -13060, -13363, -13666, -13967, -14269, -14569, -14868,
       -15165, -15461, -15756, -16049, -16340, -16629, -16916, -17200, -17483, -17762, -18039, -18313, -18584, -18852,
       -19116, -19377, -19635, -19889, -20139, -20386, -20628, -20866, -21100, -21329, -21554, -21774, -21989, -22200,
       -22405, -22605, -22801, -22990, -23175, -23353, -23526, -23694, -23855 >>

TablaExp ==
    << 1000000, 945959, 894839, 846482, 800737, 757465, 716531, 677810, 641180, 606531, 573753, 542747, 513417, 485672,
       459426, 434598, 411112, 388896, 367879, 347999, 329193, 311403, 294575, 278656, 263597, 249352, 235877, 223130,
       211072, 199666, 188876, 178669, 169013, 159880, 151240, 143067, 135335, 128022, 121103, 114559, 108368, 102512,
       96972, 91732, 86774, 82085, 77649, 73453, 69483, 65729, 62177, 58816, 55638, 52631, 49787, 47097,
       44551, 42144, 39866, 37712, 35674 >>

\* 0.03*sin(0.2 t) + 0.02*sin(0.5 t + 1.2) + 0.015*sin(1.1 t + 2.5), in ppm.
OndasF(n) == TablaOndasF[n + 1]

\* 0.025*sin(0.4 t + 0.8) + 0.015*sin(0.9 t + 1.5) + 0.01*sin(1.3 t + 3.0), in ppm.
OndasL(n) == TablaOndasL[n + 1]

\* np.exp(-t_trans / 0.3) for t_trans = m minutes, in ppm.
ExpTrans(m) == TablaExp[m + 1]

(***************************************************************************)
(* Noise.  np.random.seed(semilla) fixes the sequence np.random.normal     *)
(* returns; draw number i of seed s is Z(s, i) standard deviations.        *)
(***************************************************************************)
Z(s, i) == IF s = 0 THEN 0 ELSE ((3 * i + s) % 5) - 2

\* np.random.normal(0, sigma), sigma in ppm.
normal(s, i, sigma) == Z(s, i) * sigma

(***************************************************************************)
(* SimuladorSAG.__init__                                                   *)
(***************************************************************************)
\* The object __init__(params) leaves, with the seed np.random.randint drew.
SimuladorSAG(p, s) ==
    [params    |-> p,
     semilla   |-> s,
     sorteos   |-> 0,
     estado    |-> [t        |-> 0,
                    M_sag    |-> 10000,                       \* 100.0 t
                    W_sag    |-> 4286,                        \* 42.86 t
                    M_cu_sag |-> 72000,                       \* 0.72 t
                    F_actual |-> 0,
                    L_actual |-> MulDiv(p.L_nominal, 3, 10),  \* L_nominal * 0.3
                    H_sag    |-> p.humedad_sag],
     objetivos |-> [F_target |-> p.F_nominal, L_target |-> p.L_nominal],
     buffer_F  |-> <<0>>,
     buffer_t  |-> <<0>>,
     historial |-> [c \in ClavesHistorial |-> <<>>]]

\* The simulator as one value.
Self ==
    [params |-> params, semilla |-> semilla, sorteos |-> sorteos, estado |-> estado,
     objetivos |-> objetivos, buffer_F |-> buffer_F, buffer_t |-> buffer_t,
     historial |-> historial]

(***************************************************************************)
(* SimuladorSAG.calcular_alimentacion_chancado                             *)
(***************************************************************************)
\* The crusher flow before the absolute limits.
FlujoChancado(self) ==
    LET n == self.estado.t
        T == self.objetivos.F_target
    IN  IF EnArranque(n)
        THEN LET objetivo_arranque == MulDiv(T, n, 60)   \* T * 0.5 * min(1, t / 0.5)
                 ruido_arranque    == normal(self.semilla, self.sorteos, 2000)
             IN  objetivo_arranque + MulDiv(objetivo_arranque, ruido_arranque, Ppm)
        ELSE LET diferencia == T - self.estado.F_actual
                 cambio_max == RDiv(T, 600)              \* T * 0.1 * dt
                 cambio     == Clip(RDiv(diferencia, 60), -cambio_max, cambio_max)
                 F_base     == self.estado.F_actual + cambio
                 ruido      == normal(self.semilla, self.sorteos, 5000)
                 proximidad == Ppm - Min(Ppm, MulDiv(Abs(diferencia), Ppm, T))
                 variacion_total ==
                     IF VariacionFActiva(n)
                     THEN MulDiv(OndasF(n) + ruido, proximidad, Ppm)
                     ELSE 0
             IN  F_base + MulDiv(F_base, variacion_total, Ppm)

\* Draws of np.random.normal the flow part makes.
SorteosFlujo(n) == IF EnArranque(n) \/ VariacionFActiva(n) THEN 1 ELSE 0

\* The crusher grade before its limits; i is the number of draws made so far.
LeyChancado(self, i) ==
    LET n == self.estado.t
        T == self.objetivos.L_target
    IN  IF EnArranque(n)
        THEN LET objetivo_arranque_L == MulDiv(T, 30 + n, 100)  \* T * (0.3 + 0.3 * t / 0.5)
                 ruido_arranque_L    == normal(self.semilla, i, 1000)
             IN  objetivo_arranque_L + MulDiv(objetivo_arranque_L, ruido_arranque_L, Ppm)
        ELSE LET diferencia_L == T - self.estado.L_actual
                 cambio_max_L == RDiv(T, 1200)           \* T * 0.05 * dt
                 cambio_L     == Clip(RDiv(diferencia_L, 90), -cambio_max_L, cambio_max_L)
                 L_base       == self.estado.L_actual + cambio_L
                 ruido_L      == normal(self.semilla, i, 4000)
                 proximidad_L == Ppm - Min(Ppm, MulDiv(Abs(diferencia_L), Ppm, T))
                 variacion_L_total ==
                     IF VariacionLActiva(n)
                     THEN MulDiv(OndasL(n) + ruido_L, proximidad_L, Ppm)
                     ELSE 0
             IN  L_base + MulDiv(L_base, variacion_L_total, Ppm)

\* Draws of np.random.normal the grade part makes.
SorteosLey(n) == IF EnArranque(n) \/ VariacionLActiva(n) THEN 1 ELSE 0

\* calcular_alimentacion_chancado without the absolute limits on the flow.
calcular_alimentacion_chancado_sin_limites(self) ==
    LET n == self.estado.t
        i == self.sorteos + SorteosFlujo(n)
    IN  [F_chancado |-> FlujoChancado(self),
         L_chancado |-> Clip(LeyChancado(self, i), L_min, L_max),
         sorteos    |-> i + SorteosLey(n)]

\* [F_chancado, L_chancado, sorteos]: the pair returned and the draws consumed.
\* The method also stores the pair in estado['F_actual'], estado['L_actual'].
calcular_alimentacion_chancado(self) ==
    LET n == self.estado.t
        i == self.sorteos + SorteosFlujo(n)
    IN  [F_chancado |-> Clip(FlujoChancado(self), F_min, F_max),
         L_chancado |-> Clip(LeyChancado(self, i), L_min, L_max),
         sorteos    |-> i + SorteosLey(n)]

(***************************************************************************)
(* SimuladorSAG.calcular_recirculacion                                     *)
(***************************************************************************)
\* append on a deque built without maxlen: nothing is evicted.
DequeAppendSinMaxlen(q, x) == Append(q, x)

\* deque(maxlen=10000).append
DequeAppend(q, x) ==
    IF Len(q) >= BufferMaxlen THEN Append(Tail(q), x) ELSE Append(q, x)

\* diferencias.index(min(diferencias)): the first position of buffer_t nearest
\* in absolute value to tiempo_pasado (tp, in tenths of a minute).
idx_min(bt, tp) ==
    LET dif(i) == Abs(10 * bt[i] - tp)
        D      == {dif(i) : i \in 1..Len(bt)}
        m      == CHOOSE x \in D : \A y \in D : x <= y
    IN  CHOOSE i \in 1..Len(bt) : dif(i) = m /\ \A j \in 1..(i - 1) : dif(j) # m

\* calcular_recirculacion without the delayed lookup: the fraction of the
\* feed of the current step.
calcular_recirculacion_sin_retardo(self, F_chancado_actual) ==
    [exc |-> "none",
     val |-> MulDiv(self.params.fraccion_recirculacion, F_chancado_actual, Ppm)]

\* [exc, val]: the oversize flow returned, or the exception raised.  The
\* method first appends (F_chancado_actual, t) to the buffers; bF and bt below
\* are the buffers after that append.
calcular_recirculacion(self, F_chancado_actual) ==
    LET n   == self.estado.t
        bF  == DequeAppend(self.buffer_F, F_chancado_actual)
        bt  == DequeAppend(self.buffer_t, n)
        tau == self.params.tau_recirculacion
        f   == self.params.fraccion_recirculacion
        tiempo_pasado == 10 * n - tau
    IN  IF Len(bt) > 0 /\ TiempoPasadoPositivo(n, tau)
        THEN [exc |-> "none", val |-> MulDiv(f, bF[idx_min(bt, tiempo_pasado)], Ppm)]
        ELSE IF tau = 0
        THEN \* self.estado['t'] / tau_rec_horas is 0.0 / 0.0
             [exc |-> "ZeroDivisionError", val |-> 0]
        ELSE \* fraccion * F_chancado_actual * min(1.0, t / tau_rec_horas)
             [exc |-> "none",
              val |-> MulDiv(MulDiv(f, F_chancado_actual, Ppm), Min(tau, 10 * n), tau)]

(***************************************************************************)
(* SimuladorSAG.calcular_finos                                             *)
(***************************************************************************)
\* calcular_finos whose transition factor is 1 + 0.3 * exp(-t_trans / 0.3): it
\* scales the basic balance up.
calcular_finos_factor_mayor(self, F_descarga, F_sobre_tamano) ==
    LET n       == self.estado.t
        tau     == self.params.tau_finos
        basico  == F_descarga - F_sobre_tamano
        F_finos ==
            IF AntesDeFinos(n, tau)
            THEN MulDiv(basico, 10 * n, tau)
            ELSE IF EnTransicionFinos(n, tau)
            THEN LET t_trans == n - tau \div 10
                     factor  == Ppm + MulDiv(300000, ExpTrans(t_trans), Ppm)
                 IN  MulDiv(basico, factor, Ppm)
            ELSE basico
    IN  Max(0, F_finos)

calcular_finos(self, F_descarga, F_sobre_tamano) ==
    LET n       == self.estado.t
        tau     == self.params.tau_finos
        basico  == F_descarga - F_sobre_tamano
        F_finos ==
            IF AntesDeFinos(n, tau)
            THEN MulDiv(basico, 10 * n, tau)
            ELSE IF EnTransicionFinos(n, tau)
            THEN LET t_trans == n - tau \div 10
                     factor  == Ppm - MulDiv(300000, ExpTrans(t_trans), Ppm)
                 IN  MulDiv(basico, factor, Ppm)
            ELSE basico
    IN  Max(0, F_finos)

(***************************************************************************)
(* SimuladorSAG.paso_simulacion                                            *)
(***************************************************************************)
\* h / (1 - h) for a moisture h, in ppm.
RazonAgua(h) == MulDiv(h, Ppm, Ppm - h)

\* PASO 10 without its last three lines: the inventories are not floored.
IntegrarSinPisos(M_sag, W_sag, M_cu_sag, dM_dt, dW_dt, dMcu_dt) ==
    LET max_cambio_M   == RDiv(Max(Abs(M_sag), 1000), 50)
        max_cambio_W   == RDiv(Max(Abs(W_sag), 500), 50)
        max_cambio_Mcu == RDiv(Max(Abs(M_cu_sag), 10000), 50)
    IN  [M_sag    |-> M_sag + Clip(RDiv(dM_dt, 60), -max_cambio_M, max_cambio_M),
         W_sag    |-> W_sag + Clip(RDiv(dW_dt, 60), -max_cambio_W, max_cambio_W),
         M_cu_sag |-> M_cu_sag + Clip(RDiv(dMcu_dt, 60), -max_cambio_Mcu, max_cambio_Mcu)]

\* The three inventories after the limited Euler step (PASO 9 and PASO 10).
Integrar(M_sag, W_sag, M_cu_sag, dM_dt, dW_dt, dMcu_dt) ==
    LET max_cambio_M   == RDiv(Max(Abs(M_sag), 1000), 50)      \* 0.02 * max(|M|, 10.0)
        max_cambio_W   == RDiv(Max(Abs(W_sag), 500), 50)       \* 0.02 * max(|W|, 5.0)
        max_cambio_Mcu == RDiv(Max(Abs(M_cu_sag), 10000), 50)  \* 0.02 * max(|Mcu|, 0.1)
        cambio_M   == Clip(RDiv(dM_dt, 60), -max_cambio_M, max_cambio_M)
        cambio_W   == Clip(RDiv(dW_dt, 60), -max_cambio_W, max_cambio_W)
        cambio_Mcu == Clip(RDiv(dMcu_dt, 60), -max_cambio_Mcu, max_cambio_Mcu)
    IN  [M_sag    |-> Max(PisoM, M_sag + cambio_M),
         W_sag    |-> Max(PisoW, W_sag + cambio_W),
         M_cu_sag |-> Max(PisoMcu, M_cu_sag + cambio_Mcu)]

\* PASO 12 without the cut to the last max_puntos points.
GuardarHistorialSinRecorte(h, r, obj) ==
    LET valor ==
            [c \in ClavesHistorial |->
                CASE c = "t"        -> r.tiempo
                  [] c = "F_target" -> obj.F_target
                  [] c = "L_target" -> obj.L_target
                  [] OTHER          -> r[c]]
    IN  IF IntTSobreDt(r.tiempo) % Decimacion = 0
        THEN [c \in ClavesHistorial |-> Append(h[c], valor[c])]
        ELSE h

\* self.historial after PASO 12; r is the dict the step returns.
GuardarHistorial(h, r, obj) ==
    LET valor ==
            [c \in ClavesHistorial |->
                CASE c = "t"        -> r.tiempo
                  [] c = "F_target" -> obj.F_target
                  [] c = "L_target" -> obj.L_target
                  [] OTHER          -> r[c]]
        recortar(s) ==
            IF Len(s) > max_puntos THEN SubSeq(s, Len(s) - max_puntos + 1, Len(s)) ELSE s
    IN  IF IntTSobreDt(r.tiempo) % Decimacion = 0
        THEN [c \in ClavesHistorial |-> recortar(Append(h[c], valor[c]))]
        ELSE h

\* PASO 3 to PASO 9: the flows and derivatives of one step, from the crusher
\* feed and the oversize flow; self holds the inventories and the old t.
BalanceSAG(self, F_chancado, L_chancado, F_sobre_tamano) ==
    LET p        == self.params
        M_sag    == self.estado.M_sag
        W_sag    == self.estado.W_sag
        M_cu_sag == self.estado.M_cu_sag
        F_alimentacion_total == F_chancado + F_sobre_tamano
        L_sag == IF M_sag >= 1 THEN MulDiv(M_cu_sag, 100000, M_sag) ELSE L_chancado
        H_sag == IF M_sag >= 1 THEN MulDiv(W_sag, Ppm, M_sag + W_sag) ELSE p.humedad_sag
        W_chancado      == MulDiv(F_chancado, RazonAgua(p.humedad_alimentacion), Ppm)
        W_recirculacion == MulDiv(F_sobre_tamano, RazonAgua(p.humedad_recirculacion), Ppm)
        cobre_entrada   == MulDiv(L_chancado, F_chancado, 100000)
                           + MulDiv(L_sag, F_sobre_tamano, 100000)
        L_alimentacion_total ==
            IF F_alimentacion_total > 0
            THEN MulDiv(cobre_entrada, 100000, F_alimentacion_total)
            ELSE L_chancado
        agua_necesaria  == MulDiv(F_alimentacion_total, RazonAgua(p.humedad_sag), Ppm)
        agua_disponible == W_chancado + W_recirculacion
        W_adicional     == Max(0, agua_necesaria - agua_disponible)
        F_descarga == MulDiv(p.k_descarga, M_sag, 1000)
        W_descarga == IF H_sag < Ppm THEN MulDiv(F_descarga, RazonAgua(H_sag), Ppm) ELSE 0
    IN  [F_alimentacion_total |-> F_alimentacion_total,
         L_sag      |-> L_sag,
         H_sag      |-> H_sag,
         F_descarga |-> F_descarga,
         F_finos    |-> calcular_finos(self, F_descarga, F_sobre_tamano),
         dM_dt      |-> F_alimentacion_total - F_descarga,
         dW_dt      |-> agua_disponible + W_adicional - W_descarga,
         dMcu_dt    |-> MulDiv(L_alimentacion_total, F_alimentacion_total, 100000)
                        - MulDiv(L_sag, F_descarga, 100000)]

\* PASO 10 to the return: the inventories inv stored, t advanced, the history
\* kept and the dict returned.
ConcluirPaso(self, a, F_sobre_tamano, b, inv) ==
    LET est == [self.estado EXCEPT !.M_sag = inv.M_sag, !.W_sag = inv.W_sag,
                                   !.M_cu_sag = inv.M_cu_sag,
                                   !.t = @ + 1, !.H_sag = b.H_sag]
        r == [tiempo |-> self.estado.t + 1, M_sag |-> inv.M_sag, W_sag |-> inv.W_sag,
              M_cu_sag |-> inv.M_cu_sag, F_chancado |-> a.F_chancado,
              L_chancado |-> a.L_chancado, F_finos |-> b.F_finos,
              F_sobre_tamano |-> F_sobre_tamano,
              F_alimentacion_total |-> b.F_alimentacion_total,
              F_descarga |-> b.F_descarga, L_sag |-> b.L_sag, H_sag |-> b.H_sag]
    IN  [self |-> [self EXCEPT !.estado = est,
                               !.historial = GuardarHistorial(@, r, self.objetivos)],
         exc |-> "none", val |-> r]

\* The step from PASO 4 on with a solids balance that loses 60 t/h more than
\* the discharge.
PasoConBalanceConFuga(self, a, F_sobre_tamano, b) ==
    ConcluirPaso(self, a, F_sobre_tamano, b,
                 Integrar(self.estado.M_sag, self.estado.W_sag, self.estado.M_cu_sag,
                          b.dM_dt - 6000, b.dW_dt, b.dMcu_dt))

\* The step from PASO 4 on, the flows b of the balance known.
PasoConBalance(self, a, F_sobre_tamano, b) ==
    ConcluirPaso(self, a, F_sobre_tamano, b,
                 Integrar(self.estado.M_sag, self.estado.W_sag, self.estado.M_cu_sag,
                          b.dM_dt, b.dW_dt, b.dMcu_dt))

\* The step after calcular_recirculacion returned rec or raised.
PasoConRecirculacion(self, a, rec) ==
    IF rec.exc # "none"
    THEN [self |-> self, exc |-> rec.exc, val |-> << >>]
    ELSE IF Ppm \in {self.params.humedad_alimentacion,
                     self.params.humedad_recirculacion, self.params.humedad_sag}
    THEN \* a moisture of 1.0: h / (1 - h) divides by zero
         [self |-> self, exc |-> "ZeroDivisionError", val |-> << >>]
    ELSE PasoConBalance(self, a, rec.val,
                        BalanceSAG(self, a.F_chancado, a.L_chancado, rec.val))

\* The step after calcular_alimentacion_chancado stored its pair in self.
PasoConAlimentacion(self, a) ==
    PasoConRecirculacion(
        [self EXCEPT !.buffer_F = DequeAppend(@, a.F_chancado),
                     !.buffer_t = DequeAppend(@, self.estado.t)],
        a, calcular_recirculacion(self, a.F_chancado))

\* [self, exc, val]: the object after the call and the dict returned, or the
\* exception raised and the object as the interrupted call leaves it.
paso_simulacion(self) ==
    LET a == calcular_alimentacion_chancado(self)
    IN  PasoConAlimentacion(
            [self EXCEPT !.estado.F_actual = a.F_chancado,
                         !.estado.L_actual = a.L_chancado,
                         !.sorteos = a.sorteos],
            a)

(***************************************************************************)
(* SimuladorSAG.actualizar_objetivo, reset, obtener_estado,                *)
(* obtener_historial                                                       *)
(***************************************************************************)
\* actualizar_objetivo that also applies a new flow target to the current
\* feed at once.
actualizar_objetivo_inmediato(self, tipo, valor) ==
    IF tipo = "F"
    THEN [self |-> [self EXCEPT !.objetivos.F_target = valor,
                                !.estado.F_actual = valor],
          exc |-> "none"]
    ELSE IF tipo = "L"
    THEN [self |-> [self EXCEPT !.objetivos.L_target = valor], exc |-> "none"]
    ELSE [self |-> self, exc |-> "ValueError"]

\* actualizar_objetivo whose else branch takes every other kind for 'L'.
actualizar_objetivo_sin_rechazo(self, tipo, valor) ==
    IF tipo = "F"
    THEN [self |-> [self EXCEPT !.objetivos.F_target = valor], exc |-> "none"]
    ELSE [self |-> [self EXCEPT !.objetivos.L_target = valor], exc |-> "none"]

\* [self, exc]: the object after the call and the exception raised, if any.
actualizar_objetivo(self, tipo, valor) ==
    IF tipo = "F"
    THEN [self |-> [self EXCEPT !.objetivos.F_target = valor], exc |-> "none"]
    ELSE IF tipo = "L"
    THEN [self |-> [self EXCEPT !.objetivos.L_target = valor], exc |-> "none"]
    ELSE [self |-> self, exc |-> "ValueError"]

\* reset() that builds the new state but keeps the delay buffers.
reset_conserva_buffers(self, s) ==
    [SimuladorSAG(self.params, s) EXCEPT !.buffer_F = self.buffer_F,
                                         !.buffer_t = self.buffer_t]

\* The object after reset(); s is the seed the nested __init__ draws.
reset(self, s) ==
    LET p     == self.params
        nuevo == SimuladorSAG(p, s)
    IN  [nuevo EXCEPT !.objetivos.F_target = p.F_nominal,
                      !.objetivos.L_target = p.L_nominal]

\* What obtener_estado returns: a new dict (ref "copia") holding the values of
\* self.estado, not self.estado itself (ref "self").
obtener_estado(self) == [ref |-> "copia", val |-> self.estado]

\* obtener_historial as a shallow copy, self.historial.copy(): a new dict
\* holding the simulator's own lists.
obtener_historial_superficial(self) ==
    [ref |-> "copia", refListas |-> "self", val |-> self.historial]

\* What obtener_historial returns: a new dict of new lists.  ref names the dict
\* returned, refListas the lists it holds.
obtener_historial(self) ==
    [ref |-> "copia", refListas |-> "copia", val |-> self.historial]

(***************************************************************************)
(* The dashboard, app_streamlit.py.  It integrates its own copy of the     *)
(* balance in st.session_state.  Units: tiempo in steps of dt = 1/60 h;    *)
(* M_sag and W_sag in 0.0001 t; M_cu_sag in 1e-8 t; flows in 0.01 t/h;     *)
(* grades in 1e-8; moistures, fractions and factors in ppm; k_descarga in  *)
(* 0.001/h.  The tables hold the float expressions of the code at          *)
(* tiempo = n steps of dt, entry n + 1.                                    *)
(***************************************************************************)

\* 1 - np.exp(-tiempo / params['tau_arranque'])
TablaArranque ==
    << 0, 32784, 64493, 95163, 124827, 153518, 181269, 208110, 234072, 259182, 283469, 306959,
       329680, 351656, 372911, 393469, 413354, 432586, 451188, 469181, 486583, 503415, 519695, 535441,
       550671, 565402, 579650, 593430, 606759, 619651, 632121, 644181, 655846, 667129, 678042, 688597,
       698806, 708680, 718231, 727468, 736403, 745045, 753403, 761487, 769307, 776870, 784185, 791260,
       798103, 804722, 811124, 817316, 823306, 829098, 834701, 840120, 845362, 850431, 855335, 860078,
       864665, 869102, 873393, 877544, 881558, 885441, 889197, 892829, 896343, 899741, 903028, 906207,
       909282, 912256, 915133, 917915, 920606, 923209, 925726, 928161, 930517, 932794, 934998, 937129,
       939190, 941184, 943112, 944977, 946781, 948525, 950213, 951845, 953424, 954951, 956428, 957856,
       959238, 960574, 961867, 963117, 964326, 965496, 966627, 967721, 968779, 969803, 970793, 971750,
       972676, 973572, 974438, 975276, 976087, 976871, 977629, 978363, 979072, 979758, 980422, 981064,
       981684, 982285, 982866, 983427, 983971, 984496, 985004, 985496, 985972, 986431, 986876, 987307,
       987723, 988125, 988514, 988891, 989255, 989607, 989948, 990278, 990596 >>

\* 0.02 * np.sin(0.5 * tiempo + 3)
TablaLey ==
    << 2822, 2657, 2492, 2327, 2161, 1995, 1829, 1663, 1497, 1331, 1165, 998,
       832, 665, 498, 332, 165, -1, -168, -335, -501, -668, -835, -1001,
       -1167, -1334, -1500, -1666, -1832, -1998, -2164, -2330, -2495, -2660, -2825, -2990,
       -3155, -3319, -3484, -3648, -3811, -3975, -4138, -4301, -4464, -4626, -4788, -4950,
       -5111, -5272, -5432, -5593, -5752, -5912, -6071, -6229, -6388, -6545, -6703, -6859,
       -7016, -7171, -7327, -7482, -7636, -7790, -7943, -8096, -8248, -8399, -8550, -8701,
       -8850, -9000, -9148, -9296, -9443, -9590, -9736, -9881, -10026, -10169, -10313, -10455,
       -10597, -10738, -10878, -11017, -11156, -11294, -11431, -11568, -11703, -11838, -11972, -12105,
       -12237, -12369, -12499, -12629, -12758, -12885, -13013, -13139, -13264, -13388, -13511, -13634,
       -13755, -13876, -13995, -14114, -14232, -14348, -14464, -14578, -14692, -14805, -14916, -15027,
       -15136, -15244, -15352, -15458, -15563, -15667, -15771, -15872, -15973, -16073, -16172, -16269,
       -16366, -16461, -16555, -16648, -16740, -16830, -16920, -17008, -17095 >>

\* 0.02*sin(0.3 t) + 0.01*sin(0.7 t + 1) + 0.01*sin(2.0 t + 2)
TablaVariabilidad ==
    << 17508, 17526, 17534, 17531, 17517, 17492, 17457, 17412, 17356, 17291, 17217, 17133,
       17040, 16939, 16829, 16710, 16584, 16450, 16309, 16160, 16005, 15844, 15676, 15503,
       15324, 15140, 14952, 14759, 14562, 14361, 14157, 13950, 13741, 13529, 13315, 13100,
       12883, 12666, 12449, 12231, 12014, 11797, 11581, 11367, 11154, 10944, 10736, 10530,
       10328, 10130, 9935, 9744, 9557, 9375, 9199, 9027, 8861, 8701, 8547, 8400,
       8259, 8125, 7998, 7879, 7767, 7663, 7567, 7480, 7400, 7329, 7267, 7214,
       7169, 7134, 7108, 7091, 7084, 7086, 7097, 7118, 7149, 7189, 7239, 7299,
       7368, 7447, 7535, 7633, 7741, 7858, 7984, 8119, 8264, 8417, 8580, 8751,
       8930, 9119, 9315, 9519, 9732, 9952, 10179, 10414, 10656, 10904, 11159, 11420,
       11688, 11960, 12239, 12522, 12811, 13103, 13400, 13701, 14006, 14314, 14624, 14938,
       15253, 15571, 15890, 16210, 16531, 16853, 17174, 17496, 17817, 18137, 18455, 18772,
       19087, 19400, 19710, 20017, 20320, 20620, 20915, 21206, 21492 >>

\* 1 - np.exp(-(tiempo - tau_finos) / 0.3), tau_finos = 0.8 h; 0 before
TablaCrecimiento ==
    << 0, 0, 0, 0, 0, 0, 0, 0, 0, 0, 0, 0,
       0, 0, 0, 0, 0, 0, 0, 0, 0, 0, 0, 0,
       0, 0, 0, 0, 0, 0, 0, 0, 0, 0, 0, 0,
       0, 0, 0, 0, 0, 0, 0, 0, 0, 0, 0, 0,
       0, 54041, 105161, 153518, 199263, 242535, 283469, 322190, 358820, 393469, 426247, 457253,
       486583, 514328, 540574, 565402, 588888, 611104, 632121, 652001, 670807, 688597, 705425, 721344,
       736403, 750648, 764123, 776870, 788928, 800334, 811124, 821331, 830987, 840120, 848760, 856933,
       864665, 871978, 878897, 885441, 891632, 897488, 903028, 908268, 913226, 917915, 922351, 926547,
       930517, 934271, 937823, 941184, 944362, 947369, 950213, 952903, 955449, 957856, 960134, 962288,
       964326, 966254, 968078, 969803, 971434, 972978, 974438, 975820, 977127, 978363, 979532, 980638,
       981684, 982674, 983610, 984496, 985334, 986127, 986876, 987585, 988256, 988891, 989491, 990059,
       990596, 991105, 991585, 992040, 992470, 992877, 993262, 993626, 993971 >>

\* st.session_state.params as the script sets it.
ParamsTablero ==
    [F_nominal              |-> 199468,
     L_nominal              |-> 720000,
     fraccion_recirculacion |-> 110000,
     humedad_alimentacion   |-> 35000,
     humedad_sag            |-> 300000,
     humedad_recirculacion  |-> 80000,
     k_descarga             |-> 500,
     tau_recirculacion      |-> 90,
     tau_finos              |-> 48,
     tau_arranque           |-> 30]

\* st.session_state.estado as the script and reiniciar_simulacion set it.
EstadoTableroInicial ==
    [tiempo           |-> 0,
     M_sag            |-> 1000000,
     W_sag            |-> 428600,
     M_cu_sag         |-> 72000000,
     F_chancado       |-> 0,
     L_chancado       |-> 720000,
     F_finos          |-> 0,
     F_sobre_tamano   |-> 0,
     H_sag            |-> 300000,
     variacion_actual |-> 0,
     ley_variacion    |-> 0]

\* st.session_state.objetivos as the script sets it.
ObjetivosTablero == [F_target |-> 200000, L_target |-> 720000]

\* The series of st.session_state.historial.
ClavesHistorialTablero ==
    {"t", "M_sag", "W_sag", "M_cu_sag", "F_chancado", "L_chancado", "F_finos",
     "F_sobre_tamano", "F_target", "L_target"}

\* max_puntos of simular_paso: 24 * 360.
MaxPuntosTablero == 8640

\* The floors of simular_paso: M_sag at 10.0 t, M_cu_sag at 0.001 t.
PisoMTablero == 100000
PisoMcuTablero == 100000

\* st.session_state after the first run of the script, with the seed drawn.
SesionNueva(s) ==
    [simulando            |-> FALSE,
     ultima_actualizacion |-> 0,
     semilla_aleatoria    |-> s,
     params               |-> ParamsTablero,
     estado               |-> EstadoTableroInicial,
     objetivos            |-> ObjetivosTablero,
     historial            |-> [c \in ClavesHistorialTablero |-> << >>]]

\* estado['tiempo'] > 2.0, > tau_recirculacion (1.5), > tau_finos (0.8) and
\* < tau_finos + 1.0, for the float sum tiempo of n additions of 1/60.0.
VariabilidadTablero(n) == n >= 121
PasadoRetardoTablero(n) == n >= 91
PasadoFinosTablero(n) == n >= 48
EnCrecimientoFinos(n) == n <= 108

\* np.random.random() in ppm: draw i of the step that reaches tiempo n, after
\* np.random.seed(semilla_aleatoria + int(tiempo * 100)).
random_random(s, n, i) == IF s = 0 THEN 500000 ELSE ((8 * n + i - 1) % 1000) * 1000

\* 1 + lenta + media + rapida + perturbacion.
RandomFactor(s, n) ==
    IF VariabilidadTablero(n)
    THEN LET rapida == normal(s, 2 * n, 5000)
             p1 == IF random_random(s, n, 1) < 2000 THEN -30000 ELSE 0
             p2 == IF random_random(s, n, 2) < 300 THEN -75000 ELSE 0
         IN  Ppm + TablaVariabilidad[n + 1] + rapida + p1 + p2
    ELSE Ppm

\* The feed of the step: first-order pursuit of the target, then the start-up
\* and random factors, then np.clip to [0.1, 1.5] of the target.
FChancadoTablero(F, T, s, n) ==
    LET F1 == F + RDiv(T - F, 30)
        F2 == MulDiv(MulDiv(F1, TablaArranque[n + 1], Ppm), RandomFactor(s, n), Ppm)
    IN  Clip(F2, RDiv(T, 10), RDiv(3 * T, 2))

\* ley_variacion of the step.
LeyVariacionTablero(s, n) == TablaLey[n + 1] + normal(s, 2 * n + 1, 5000)

\* The grade of the step: the nominal grade perturbed and clipped, then the
\* pursuit of the target with tau_L = 2.0.
LChancadoTablero(Ln, Lt, s, n) ==
    LET L0 == Ln + MulDiv(Ln, MulDiv(LeyVariacionTablero(s, n), 8, 100), Ppm)
        L1 == Clip(L0, RDiv(7 * Ln, 10), RDiv(13 * Ln, 10))
    IN  L1 + RDiv(Lt - L1, 120)

\* F_descarga = params['k_descarga'] * estado['M_sag'].
FDescargaTablero(k, M) == MulDiv(k, M, 100000)

\* estado['M_sag'] after the solids balance:
\*     dM_dt = (F_alimentacion_total - F_descarga) / 60.0
\*     estado['M_sag'] += dM_dt * dt;  estado['M_sag'] = max(.., 10.0)
\* A flow of one unit (0.01 t/h) adds 0.01 / 60 / 60 t = 1/36 of 0.0001 t.
MasaTablero(M, F_alimentacion_total, F_descarga) ==
    Max(M + RDiv(F_alimentacion_total - F_descarga, 36), PisoMTablero)

\* estado['M_cu_sag'] after the copper balance, whose flows are divided by
\* 60.0 and multiplied by dt as well; L_sag is read from the updated M_sag.
CobreTablero(Mcu, M, L, F, F_st, F_descarga) ==
    LET L_sag == IF M > 1000 THEN MulDiv(Mcu, 10000, M) ELSE L
        dMcu  == MulDiv(L, F, 360000) + MulDiv(L_sag, F_st, 360000)
                 - MulDiv(L_sag, F_descarga, 360000)
    IN  Max(Mcu + dMcu, PisoMcuTablero)

\* estado['F_finos'] of the step.
FFinosTablero(F_descarga, F_st, n) ==
    IF PasadoFinosTablero(n)
    THEN LET base == Max(F_descarga - F_st, 0)
         IN  IF EnCrecimientoFinos(n)
             THEN MulDiv(base, TablaCrecimiento[n + 1], Ppm)
             ELSE base
    ELSE 0

\* The history after the step that reaches tiempo n: one point per series when
\* int(tiempo / dt) % 10 == 0, each series cut to its last max_puntos.
HistorialTablero(h, e, obj) ==
    IF IntTSobreDt(e.tiempo) % 10 = 0
    THEN [c \in ClavesHistorialTablero |->
             LET valor == CASE c = "t" -> e.tiempo
                            [] c \in {"F_target", "L_target"} -> obj[c]
                            [] OTHER -> e[c]
                 l == Append(h[c], valor)
             IN  IF Len(l) > MaxPuntosTablero
                 THEN SubSeq(l, Len(l) - MaxPuntosTablero + 1, Len(l))
                 ELSE l]
    ELSE h

\* estado after the balance of the step, given its feed, grade and
\* recirculation.
EstadoConBalance(ss, n, F, L, F_st, F_descarga, M) ==
    LET W == MulDiv(M, RazonAgua(ss.params.humedad_sag), Ppm)
    IN  [tiempo           |-> n,
         M_sag            |-> M,
         W_sag            |-> W,
         M_cu_sag         |-> CobreTablero(ss.estado.M_cu_sag, M, L, F, F_st, F_descarga),
         F_chancado       |-> F,
         L_chancado       |-> L,
         F_finos          |-> FFinosTablero(F_descarga, F_st, n),
         F_sobre_tamano   |-> F_st,
         H_sag            |-> MulDiv(W, Ppm, Max(M + W, 10)),
         variacion_actual |-> RandomFactor(ss.semilla_aleatoria, n) - Ppm,
         ley_variacion    |-> LeyVariacionTablero(ss.semilla_aleatoria, n)]

\* The step from the recirculation on.
EstadoConAlimentacion(ss, n, F, L) ==
    LET F_st == IF PasadoRetardoTablero(n)
                THEN MulDiv(MulDiv(ss.params.fraccion_recirculacion, F, Ppm), 9, 10)
                ELSE 0
        F_descarga == FDescargaTablero(ss.params.k_descarga, ss.estado.M_sag)
    IN  EstadoConBalance(ss, n, F, L, F_st, F_descarga,
                         MasaTablero(ss.estado.M_sag, F + F_st, F_descarga))

\* simular_paso(): st.session_state after one step.  The time advances first.
simular_paso(ss) ==
    LET n == ss.estado.tiempo + 1
        e == EstadoConAlimentacion(ss, n,
                 FChancadoTablero(ss.estado.F_chancado, ss.objetivos.F_target,
                                  ss.semilla_aleatoria, n),
                 LChancadoTablero(ss.params.L_nominal, ss.objetivos.L_target,
                                  ss.semilla_aleatoria, n))
    IN  [ss EXCEPT !.estado = e,
                   !.historial = HistorialTablero(ss.historial, e, ss.objetivos)]

\* iniciar_simulacion(): the clock is read (never 0) and a seed is drawn.
iniciar_simulacion(ss, s) ==
    [ss EXCEPT !.simulando = TRUE, !.ultima_actualizacion = 1,
               !.semilla_aleatoria = s]

\* pausar_simulacion().
pausar_simulacion(ss) == [ss EXCEPT !.simulando = FALSE]

\* reiniciar_simulacion(): stops, restores estado, empties every series and
\* draws a seed; params, objetivos and ultima_actualizacion stay.
reiniciar_simulacion(ss, s) ==
    [ss EXCEPT !.simulando = FALSE,
               !.estado = EstadoTableroInicial,
               !.historial = [c \in ClavesHistorialTablero |-> << >>],
               !.semilla_aleatoria = s]

(***************************************************************************)
(* The simulator driven by a caller.                                       *)
(***************************************************************************)
\* The variables hold the object self.
Es(self) ==
    /\ params = self.params
    /\ semilla = self.semilla
    /\ sorteos = self.sorteos
    /\ estado = self.estado
    /\ objetivos = self.objetivos
    /\ buffer_F = self.buffer_F
    /\ buffer_t = self.buffer_t
    /\ historial = self.historial

\* The call leaves the object self.
Asignar(self) ==
    /\ params' = self.params
    /\ semilla' = self.semilla
    /\ sorteos' = self.sorteos
    /\ estado' = self.estado
    /\ objetivos' = self.objetivos
    /\ buffer_F' = self.buffer_F
    /\ buffer_t' = self.buffer_t
    /\ historial' = self.historial

\* What a call hands back: the exception raised (or "none"), the value
\* returned, and whether that value (and the lists in it) is a new object
\* ("copia") or the simulator's own ("self").
Retorno(op, exc, val, ref, refListas) ==
    [op |-> op, exc |-> exc, val |-> val, ref |-> ref, refListas |-> refListas]

\* SimuladorSAG(params): __init__ validates nothing and raises nothing.
Init ==
    /\ \E p \in Parametros, s \in Semillas : Es(SimuladorSAG(p, s))
    /\ ret = Retorno("__init__", "none", << >>, "copia", "copia")
    /\ reloj = 0
    /\ session_state = SesionNueva(0)

\* One call of paso_simulacion, while fewer than max have been made.
PasoHasta(max) ==
    /\ reloj < max
    /\ LET r == paso_simulacion(Self)
       IN  /\ Asignar(r.self)
           /\ ret' = Retorno("paso_simulacion", r.exc, r.val, "copia", "copia")
    /\ reloj' = reloj + 1
    /\ UNCHANGED session_state

Paso == PasoHasta(MaxPasos)

\* One call of actualizar_objetivo(tipo, valor), made when the number of steps
\* taken is one of momentos.
ActualizarObjetivoEn(momentos) ==
    /\ reloj \in momentos
    /\ \E tipo \in Tipos :
       \E valor \in (IF tipo = "L" THEN ValoresL ELSE ValoresF) :
          LET r == actualizar_objetivo(Self, tipo, valor)
          IN  /\ Asignar(r.self)
              /\ ret' = Retorno("actualizar_objetivo", r.exc, <<tipo, valor>>,
                                "copia", "copia")
    /\ UNCHANGED <<reloj, session_state>>

ActualizarObjetivo == ActualizarObjetivoEn(MomentosOperacion)

\* One call of reset(), made when the number of steps taken is one of momentos.
ResetEn(momentos) ==
    /\ reloj \in momentos
    /\ \E s \in Semillas : Asignar(reset(Self, s))
    /\ ret' = Retorno("reset", "none", << >>, "copia", "copia")
    /\ UNCHANGED <<reloj, session_state>>

Reset == ResetEn(MomentosOperacion)

\* One call of obtener_estado().
ObtenerEstado ==
    /\ reloj \in MomentosOperacion
    /\ LET r == obtener_estado(Self)
       IN  ret' = Retorno("obtener_estado", "none", r.val, r.ref, r.ref)
    /\ UNCHANGED <<sim, reloj, session_state>>

\* One call of obtener_historial().
ObtenerHistorial ==
    /\ reloj \in MomentosOperacion
    /\ LET r == obtener_historial(Self)
       IN  ret' = Retorno("obtener_historial", "none", r.val, r.ref, r.refListas)
    /\ UNCHANGED <<sim, reloj, session_state>>

\* The dict after the caller assigns one of its keys.
AsignarClave(d, c, v) == [d EXCEPT ![c] = v]

\* The caller writes to the dict obtener_estado returned: d['M_sag'] = 0.
\* The write lands in self.estado when the dict returned is self.estado.
MutarEstadoRetornado ==
    /\ ret.op = "obtener_estado"
    /\ LET d == AsignarClave(ret.val, "M_sag", 0)
       IN  /\ ret' = [ret EXCEPT !.op = "mutar_estado", !.val = d]
           /\ estado' = IF ret.ref = "self" THEN d ELSE estado
    /\ UNCHANGED <<params, semilla, sorteos, objetivos, buffer_F, buffer_t,
                   historial, reloj, session_state>>

\* The ways the caller changes what obtener_historial returned.
Mutaciones == {"asignar", "append", "clear"}

\* The caller writes to what obtener_historial returned: h['t'] = [] (on the
\* dict), h['M_sag'].append(0) or h['F_finos'].clear() (on a list).  The
\* write lands in self.historial when the object written is the simulator's.
MutarHistorialRetornado ==
    /\ ret.op = "obtener_historial"
    /\ \E m \in Mutaciones :
          LET d == CASE m = "asignar" -> AsignarClave(ret.val, "t", <<0>>)
                     [] m = "append"  -> AsignarClave(ret.val, "M_sag",
                                                      Append(ret.val["M_sag"], 0))
                     [] m = "clear"   -> AsignarClave(ret.val, "F_finos", << >>)
              compartido == IF m = "asignar" THEN ret.ref = "self"
                            ELSE ret.refListas = "self"
          IN  /\ ret' = [ret EXCEPT !.op = "mutar_historial", !.val = d]
              /\ historial' = IF compartido THEN d ELSE historial
    /\ UNCHANGED <<params, semilla, sorteos, estado, objetivos, buffer_F,
                   buffer_t, reloj, session_state>>

Next ==
    \/ Paso
    \/ ActualizarObjetivo
    \/ Reset
    \/ ObtenerEstado
    \/ ObtenerHistorial
    \/ MutarEstadoRetornado
    \/ MutarHistorialRetornado

Spec == Init /\ [][Next]_vars

(***************************************************************************)
(* A long run of steps alone, with the default parameters and no noise.    *)
(***************************************************************************)
InitLargo ==
    /\ Es(SimuladorSAG(crear_parametros_default, 0))
    /\ ret = Retorno("__init__", "none", << >>, "copia", "copia")
    /\ reloj = 0
    /\ session_state = SesionNueva(0)

PasoLargo == PasoHasta(MaxPasosLargo)

NextLargo == PasoLargo

SpecLargo == InitLargo /\ [][NextLargo]_vars

(***************************************************************************)
(* A late state: the default simulator, noise off, after 9960 calls of     *)
(* paso_simulacion, tabulated.  The delay buffers are 39 samples short of  *)
(* their maxlen and the history has been at its cap since step 8610.       *)
(***************************************************************************)

\* list(self.buffer_F) after 9960 steps.

BufferFTardio ==
    <<
       0, 50000, 50000, 50000, 50000, 50000, 50000, 50000, 50000, 50000, 50000, 50000, 50000, 50000, 50000, 50000,
       50000, 53333, 56667, 60000, 63333, 66667, 70000, 73333, 76667, 80000, 83333, 86667, 90000, 93333, 96667, 100000,
       100333, 100666, 100999, 101332, 101665, 101998, 102331, 102664, 102997, 103330, 103663, 103996, 104329, 104662, 104995, 105328,
       105661, 105994, 106327, 106660, 106993, 107326, 107659, 107992, 108325, 108658, 108991, 109324, 109657, 111145, 112654, 114185,
       115737, 117311, 118908, 120528, 122171, 123838, 125529, 127245, 128986, 130753, 132546, 134366, 136214, 138090, 139995, 141929,
       143893, 145888, 147915, 149974, 152067, 154194, 156356, 158555, 160791, 163065, 165379, 167734, 170131, 172572, 175058, 177590,
       180171, 182799, 185435, 188079, 190732, 193394, 196067, 198752, 201449, 204120, 206732, 209286, 211782, 214222, 216605, 218933,
       221208, 223452, 225682, 227898, 230101, 232290, 234466, 236629, 238779, 240917, 243042, 245155, 247256, 249346, 251424, 253491,
       255547, 257592, 259626, 261650, 263663, 265666, 267659, 269642, 271616, 273580, 275534, 277479, 279414, 281340, 283256, 285163,
       287060, 288947, 290825, 292693, 294551, 296399, 298237, 300065, 301882, 303688, 305483, 307267, 309040, 310801, 312550, 314286,
       316009, 317719, 319416, 321099, 322768, 324422, 326061, 327684, 329292, 330883, 332458, 334015, 335555, 337077, 338580, 340064,
       341529, 342975, 344400, 345805, 347189, 348552, 349894, 351214, 352512, 353787, 355040, 356269, 357475, 358658, 359817, 360953,
       362065, 363153, 364217, 365257, 366273, 367265, 368233, 369177, 370097, 370993, 371866, 372715, 373541, 374344, 375124, 375881,
       376616, 377328, 378019, 378688, 379336, 379963, 380569, 381155, 381721, 382268, 382796, 383305, 383796, 384269, 384725, 385164,
       385587, 385994, 386385, 386761, 387122, 387469, 387802, 388121, 388427, 388721, 389003, 389273, 389532, 389779, 390016, 390243,
       390460, 390667, 390865, 391054, 391235, 391407, 391572, 391729, 391879, 392022, 392159, 392289, 392413, 392531, 392644, 392751,
       392853, 392950, 393042, 393130, 393213, 393292, 393367, 393438, 393505, 393569, 393629, 393686, 393740, 393791, 393839, 393885,
       393928, 393968, 394006, 394041, 394074, 394105, 394134, 394161, 394186, 394209, 394230, 394250, 394268, 394284, 394299, 394312,
       394324, 394334, 394343, 394350, 394356, 394361, 394364, 394366, 394367, 394367, 394365, 394362, 394358, 394353, 394347, 394339,
       394330, 394320, 394309, 394297, 394284, 394270, 394255, 394239, 394222, 394204, 394185, 394164, 394142, 394119, 394095, 394070,
       394044, 394017, 393989, 393960, 393929, 393897, 393864, 393830, 393794, 393757, 393719, 393680, 393640, 393598, 393555, 393511,
       393465, 393418, 393370, 393320, 393268, 393215, 393161, 393105, 393047, 392988, 392927, 392864, 392800, 392734, 392666, 392597,
       392526, 392453, 392378, 392301, 392222, 392141, 392058, 391973, 391886, 391796, 391704, 391610, 391513, 391414, 391313, 391209,
       391102, 390993, 390881, 390766, 390648, 390527, 390403, 390276, 390146, 390013, 389876, 389736, 389593, 389446, 389295, 389141,
       388983, 388821, 388655, 388485, 388311, 388132, 387949, 387762, 387570, 387374, 387173, 386967, 386756, 386540, 386319, 386093,
       385861, 385624, 385381, 385133, 384879, 384619, 384353, 384081, 383802, 383517, 383226, 382928, 382624, 382313, 381995, 381670,
       381338, 380999, 380653, 380299, 379938, 379569, 379193, 378809, 378418, 378019, 377612, 377197, 376774, 376344, 375905, 375459,
       375004, 374542, 374072, 373594, 373108, 372614, 372112, 371603, 371086, 370562, 370031, 369492, 368946, 368394, 367835, 367269,
       366697, 366119, 365536, 364947, 364353, 363755, 363152, 362545, 361935, 361321, 360705, 360086, 359465, 358843, 358220, 357597,
       356974, 356352, 355732, 355114, 354498, 353886, 353278, 352675, 352077, 351485, 350900, 350323, 349754, 349195, 348646, 348107,
       347580, 347066, 346565, 346078, 345606, 345149, 344709, 344286, 343881, 343495, 343128, 342782, 342457, 342153, 341872, 341614,
       341380, 341170, 340985, 340826, 340693, 340587, 340508, 340456, 340433, 340438, 340471, 340533, 340625, 340746, 340896, 341076,
       341286, 341525, 341794, 342093, 342421, 342778, 343164, 343579, 344022, 344493, 344990, 345514, 346064, 346640, 347240, 347864,
       348511, 349181, 349872, 350583, 351314, 352063, 352830, 353613, 354410, 355221, 356045, 356881, 357726, 358580, 359442, 360310,
       361183, 362060, 362940, 363821, 364702, 365581, 366458, 367331, 368199, 369061, 369916, 370763, 371601, 372429, 373245, 374049,
       374841, 375619, 376383, 377132, 377866, 378584, 379286, 379970, 380637, 381287, 381919, 382533, 383130, 383708, 384268, 384810,
       385334, 385840, 386328, 386798, 387251, 387686, 388105, 388507, 388893, 389263, 389617, 389956, 390280, 390590, 390886, 391169,
       391439, 391696, 391941, 392174, 392396, 392607, 392807, 392998, 393179, 393351, 393514, 393669, 393815, 393954, 394086, 394211,
       394329, 394441, 394547, 394648, 394743, 394833, 394918, 394999, 395075, 395147, 395216, 395281, 395342, 395400, 395455, 395507,
       395556, 395603, 395647, 395689, 395728, 395765, 395801, 395835, 395867, 395897, 395926, 395953, 395978, 396002, 396025, 396047,
       396067, 396086, 396104, 396121, 396137, 396152, 396166, 396179, 396192, 396204, 396215, 396225, 396234, 396243, 396251, 396258,
       396265, 396271, 396277, 396282, 396286, 396290, 396293, 396295, 396297, 396299, 396300, 396300, 396300, 396299, 396298, 396296,
       396294, 396292, 396289, 396285, 396281, 396277, 396272, 396267, 396261, 396255, 396249, 396242, 396234, 396226, 396218, 396209,
       396200, 396190, 396180, 396170, 396159, 396148, 396136, 396124, 396112, 396099, 396086, 396072, 396058, 396043, 396028, 396012,
       395996, 395980, 395963, 395946, 395928, 395910, 395891, 395872, 395853, 395833, 395813, 395792, 395771, 395749, 395727, 395704,
       395681, 395658, 395634, 395610, 395585, 395560, 395534, 395508, 395481, 395454, 395426, 395398, 395369, 395340, 395310, 395280,
       395250, 395219, 395187, 395155, 395122, 395089, 395056, 395022, 394987, 394952, 394917, 394881, 394844, 394807, 394769, 394731,
       394693, 394654, 394615, 394575, 394535, 394494, 394453, 394411, 394369, 394326, 394283, 394240, 394196, 394152, 394107, 394062,
       394016, 393970, 393924, 393877, 393830, 393782, 393734, 393685, 393636, 393587, 393538, 393488, 393438, 393388, 393337, 393286,
       393235, 393184, 393132, 393080, 393028, 392976, 392924, 392872, 392819, 392766, 392713, 392660, 392607, 392554, 392501, 392448,
       392395, 392342, 392290, 392238, 392186, 392134, 392082, 392030, 391979, 391928, 391877, 391827, 391777, 391727, 391678, 391629,
       391580, 391532, 391485, 391438, 391392, 391346, 391301, 391257, 391213, 391170, 391128, 391087, 391046, 391006, 390967, 390929,
       390892, 390856, 390821, 390787, 390753, 390721, 390690, 390660, 390631, 390603, 390576, 390550, 390525, 390501, 390478, 390456,
       390435, 390416, 390398, 390381, 390365, 390351, 390338, 390326, 390315, 390305, 390296, 390289, 390283, 390278, 390274, 390271,
       390269, 390269, 390270, 390272, 390275, 390279, 390284, 390290, 390297, 390305, 390314, 390324, 390335, 390346, 390359, 390372,
       390386, 390401, 390416, 390432, 390449, 390466, 390484, 390503, 390522, 390541, 390561, 390582, 390603, 390624, 390645, 390667,
       390689, 390711, 390733, 390755, 390777, 390799, 390821, 390843, 390865, 390887, 390909, 390931, 390953, 390975, 390996, 391017,
       391038, 391058, 391078, 391097, 391116, 391134, 391152, 391169, 391185, 391201, 391216, 391230, 391244, 391257, 391269, 391280,
       391291, 391300, 391309, 391317, 391324, 391330, 391335, 391339, 391341, 391342, 391343, 391342, 391340, 391337, 391332, 391326,
       391319, 391311, 391301, 391290, 391277, 391263, 391247, 391229, 391210, 391189, 391167, 391143, 391117, 391090, 391061, 391030,
       390997, 390962, 390925, 390886, 390845, 390802, 390756, 390708, 390658, 390605, 390550, 390492, 390432, 390369, 390303, 390234,
       390162, 390087, 390009, 389928, 389844, 389756, 389665, 389570, 389471, 389368, 389261, 389150, 389035, 388915, 388791, 388662,
       388528, 388389, 388245, 388095, 387939, 387777, 387609, 387434, 387252, 387063, 386867, 386663, 386451, 386231, 386003, 385765,
       385518, 385261, 384994, 384716, 384426, 384125, 383812, 383486, 383146, 382792, 382423, 382038, 381637, 381219, 380783, 380328,
       379853, 379357, 378839, 378298, 377733, 377143, 376526, 375880, 375205, 374498, 373758, 372984, 372173, 371324, 370434, 369501,
       368523, 367497, 366421, 365292, 364107, 362863, 361557, 360186, 358746, 357233, 355643, 353973, 352218, 350373, 348434, 346397,
       344256, 342006, 339641, 337156, 334546, 331804, 328925, 325903, 322732, 319406, 315919, 312265, 308439, 304436, 300250, 295877,
       291313, 286554, 281597, 276441, 271085, 265529, 259774, 253823, 247680, 241350, 234841, 228162, 221324, 214339, 207312, 200282,
       193266, 186743, 180688, 175059, 169738, 164693, 159904, 155353, 151025, 146905, 142980, 139237, 135665, 132253, 128992, 125873,
       122888, 120030, 117291, 114664, 112144, 109725, 107402, 105169, 103022, 100957, 98970, 97057, 95214, 93438, 91726, 90075,
       88482, 86945, 85461, 84028, 82644, 81306, 80013, 78763, 77554, 76384, 75252, 74156, 73095, 72067, 71071, 70106,
       69171, 68265, 67386, 66534, 65708, 64906, 64128, 63373, 62641, 61930, 61240, 60570, 59919, 59287, 58673, 58077,
       57498, 56935, 56388, 55857, 55340, 54838, 54350, 53876, 53415, 52967, 52531, 52108, 51696, 51296, 50907, 50529,
       50161, 50000, 50000, 50000, 50000, 50000, 50000, 50000, 50000, 50000, 50000, 50000, 50000, 50000, 50000, 50000,
       50000, 50000, 50000, 50000, 50000, 50000, 50000, 50000, 50000, 50000, 50000, 50000, 50000, 50000, 50000, 50000,
       50000, 50000, 50000, 50000, 50000, 50000, 50000, 50000, 50000, 50000, 50000, 50000, 50000, 50000, 50000, 50000,
       50000, 50000, 50000, 50000, 50000, 50000, 50000, 50000, 50000, 50000, 50000, 50000, 50000, 50000, 50000, 50000,
       50000, 50000, 50000, 50000, 50000, 50000, 50000, 50000, 50000, 50000, 50000, 50000, 50000, 50000, 50000, 50000,
       50000, 50000, 50000, 50000, 50000, 50000, 50000, 50000, 50000, 50000, 50000, 50000, 50000, 50000, 50000, 50000,
       50000, 50000, 50000, 50000, 50000, 50000, 50000, 50000, 50000, 50000, 50000, 50000, 50000, 50000, 50000, 50000,
       50000, 50000, 50000, 50000, 50000, 50000, 50000, 50000, 50000, 50000, 50000, 50002, 50007, 50015, 50026, 50040,
       50056, 50075, 50096, 50120, 50146, 50175, 50206, 50239, 50274, 50311, 50350, 50391, 50434, 50479, 50525, 50573,
       50623, 50674, 50727, 50781, 50836, 50893, 50951, 51010, 51070, 51131, 51193, 51256, 51320, 51385, 51450, 51516,
       51583, 51650, 51718, 51786, 51855, 51924, 51993, 52063, 52133, 52203, 52273, 52343, 52413, 52483, 52553, 52622,
       52691, 52760, 52828, 52896, 52964, 53031, 53098, 53164, 53229, 53293, 53357, 53420, 53482, 53543, 53603, 53662,
       53720, 53777, 53833, 53888, 53942, 53994, 54045, 54095, 54144, 54191, 54237, 54281, 54324, 54365, 54405, 54443,
       54480, 54515, 54549, 54581, 54611, 54640, 54667, 54692, 54715, 54737, 54757, 54775, 54791, 54806, 54819, 54830,
       54839, 54846, 54852, 54856, 54858, 54858, 54857, 54854, 54849, 54842, 54834, 54824, 54812, 54799, 54784, 54767,
       54749, 54729, 54708, 54685, 54660, 54634, 54607, 54578, 54548, 54516, 54483, 54449, 54413, 54376, 54338, 54299,
       54259, 54218, 54175, 54132, 54088, 54043, 53997, 53950, 53902, 53853, 53804, 53754, 53703, 53652, 53600, 53548,
       53495, 53442, 53388, 53334, 53280, 53226, 53171, 53116, 53061, 53006, 52951, 52896, 52841, 52786, 52732, 52678,
       52624, 52570, 52517, 52464, 52412, 52360, 52309, 52258, 52208, 52158, 52109, 52061, 52014, 51967, 51921, 51876,
       51832, 51789, 51747, 51706, 51666, 51627, 51589, 51553, 51518, 51484, 51451, 51420, 51390, 51361, 51334, 51308,
       51284, 51261, 51240, 51220, 51202, 51186, 51171, 51158, 51147, 51138, 51130, 51124, 51120, 51118, 51118, 51120,
       51124, 51130, 51138, 51148, 51160, 51174, 51190, 51208, 51229, 51252, 51277, 51304, 51334, 51366, 51400, 51437,
       51476, 51517, 51561, 51607, 51656, 51707, 51761, 51817, 51876, 51938, 52002, 52069, 52139, 52211, 52286, 52364,
       52445, 52529, 52615, 52704, 52796, 52891, 52989, 53090, 53194, 53301, 53411, 53525, 53642, 53762, 53885, 54011,
       54141, 54274, 54410, 54550, 54693, 54840, 54990, 55144, 55301, 55462, 55626, 55794, 55966, 56141, 56320, 56503,
       56690, 56881, 57075, 57273, 57475, 57681, 57891, 58106, 58325, 58548, 58775, 59006, 59242, 59482, 59726, 59975,
       60228, 60486, 60748, 61015, 61287, 61563, 61844, 62130, 62421, 62716, 63016, 63321, 63631, 63946, 64266, 64591,
       64922, 65258, 65599, 65945, 66297, 66654, 67016, 67384, 67757, 68136, 68520, 68910, 69306, 69707, 70114, 70527,
       70946, 71370, 71800, 72236, 72678, 73126, 73580, 74040, 74505, 74976, 75453, 75936, 76425, 76920, 77421, 77928,
       78441, 78960, 79485, 80016, 80552, 81094, 81642, 82196, 82755, 83320, 83890, 84466, 85047, 85633, 86224, 86821,
       87422, 88028, 88639, 89254, 89874, 90498, 91126, 91758, 92394, 93033, 93676, 94322, 94970, 95621, 96274, 96929,
       97586, 98244, 98903, 99563, 100224, 100885, 101546, 102206, 102865, 103522, 104177, 104830, 105480, 106127, 106770, 107409,
       108043, 108672, 109295, 109912, 110522, 111125, 111720, 112306, 112883, 113451, 114008, 114554, 115089, 115612, 116122, 116619,
       117102, 117571, 118024, 118462, 118884, 119289, 119676, 120045, 120396, 120728, 121041, 121334, 121606, 121857, 122087, 122295,
       122481, 122645, 122786, 122904, 122999, 123070, 123118, 123142, 123142, 123118, 123070, 122998, 122902, 122782, 122638, 122470,
       122279, 122064, 121826, 121565, 121282, 120977, 120650, 120301, 119931, 119540, 119129, 118699, 118249, 117781, 117295, 116791,
       116271, 115734, 115182, 114615, 114033, 113438, 112830, 112209, 111577, 110934, 110280, 109616, 108944, 108263, 107574, 106878,
       106176, 105468, 104755, 104037, 103315, 102590, 101862, 101131, 100399, 99665, 98930, 98195, 97460, 96726, 95993, 95262,
       94533, 93806, 93082, 92361, 91643, 90929, 90219, 89513, 88812, 88116, 87425, 86740, 86060, 85386, 84718, 84056,
       83401, 82752, 82110, 81475, 80847, 80226, 79612, 79005, 78406, 77814, 77229, 76652, 76083, 75521, 74967, 74421,
       73882, 73351, 72828, 72313, 71805, 71305, 70813, 70329, 69852, 69383, 68922, 68469, 68023, 67585, 67154, 66731,
       66315, 65907, 65506, 65112, 64725, 64346, 63974, 63609, 63251, 62900, 62556, 62219, 61889, 61565, 61248, 60938,
       60634, 60337, 60046, 59762, 59484, 59212, 58947, 58688, 58435, 58188, 57947, 57712, 57483, 57260, 57042, 56830,
       56624, 56423, 56228, 56039, 55855, 55676, 55503, 55335, 55172, 55015, 54863, 54716, 54574, 54437, 54305, 54178,
       54056, 53939, 53827, 53720, 53618, 53520, 53427, 53339, 53256, 53177, 53103, 53034, 52969, 52909, 52853, 52802,
       52755, 52713, 52675, 52642, 52613, 52588, 52568, 52552, 52540, 52533, 52530, 52531, 52537, 52547, 52561, 52580,
       52603, 52630, 52661, 52697, 52737, 52781, 52829, 52882, 52939, 53000, 53066, 53136, 53210, 53289, 53372, 53459,
       53551, 53647, 53747, 53852, 53961, 54075, 54193, 54316, 54443, 54575, 54711, 54852, 54997, 55147, 55302, 55461,
       55625, 55794, 55968, 56147, 56330, 56518, 56711, 56909, 57112, 57321, 57535, 57754, 57978, 58207, 58442, 58682,
       58928, 59179, 59436, 59698, 59966, 60240, 60520, 60806, 61098, 61396, 61700, 62010, 62326, 62649, 62978, 63314,
       63656, 64005, 64361, 64724, 65094, 65471, 65855, 66247, 66646, 67052, 67466, 67888, 68318, 68756, 69202, 69656,
       70119, 70590, 71070, 71559, 72057, 72564, 73080, 73605, 74140, 74685, 75240, 75805, 76380, 76965, 77561, 78168,
       78786, 79415, 80056, 80708, 81372, 82048, 82737, 83438, 84152, 84879, 85619, 86373, 87141, 87923, 88719, 89530,
       90356, 91197, 92054, 92927, 93816, 94722, 95645, 96585, 97543, 98519, 99513, 100526, 101558, 102610, 103682, 104775,
       105889, 107025, 108183, 109364, 110568, 111795, 113047, 114324, 115626, 116954, 118309, 119692, 121103, 122543, 124012, 125512,
       127043, 128606, 130202, 131832, 133497, 135197, 136934, 138709, 140523, 142377, 144272, 146210, 148191, 150217, 152290, 154411,
       156581, 158802, 161076, 163404, 165789, 168232, 170735, 173300, 175930, 178627, 181393, 184207, 187048, 189916, 192813, 195739,
       198696, 201685, 204656, 207568, 210422, 213217, 215954, 218631, 221249, 223830, 226396, 228946, 231478, 233992, 236487, 238963,
       241419, 243854, 246268, 248660, 251030, 253377, 255700, 258000, 260276, 262528, 264755, 266957, 269135, 271288, 273416, 275518,
       277595, 279647, 281674, 283676, 285652, 287603, 289529, 291431, 293308, 295161, 296989, 298793, 300573, 302330, 304064, 305775,
       307462, 309127, 310770, 312391, 313990, 315567, 317123, 318658, 320173, 321667, 323141, 324595, 326030, 327445, 328841, 330219,
       331578, 332919, 334242, 335547, 336835, 338105, 339358, 340594, 341814, 343017, 344204, 345374, 346528, 347666, 348789, 349896,
       350987, 352063, 353124, 354170, 355200, 356215, 357215, 358200, 359171, 360127, 361068, 361994, 362905, 363802, 364684, 365552,
       366405, 367244, 368068, 368878, 369673, 370454, 371220, 371971, 372708, 373431, 374139, 374833, 375513, 376178, 376829, 377466,
       378089, 378698, 379293, 379874, 380441, 380994, 381533, 382059, 382571, 383070, 383556, 384029, 384488, 384935, 385369, 385790,
       386199, 386596, 386981, 387354, 387715, 388065, 388404, 388732, 389049, 389355, 389651, 389937, 390213, 390479, 390736, 390984,
       391223, 391453, 391675, 391888, 392093, 392291, 392481, 392664, 392840, 393009, 393172, 393328, 393478, 393622, 393761, 393894,
       394022, 394145, 394263, 394376, 394485, 394590, 394690, 394786, 394879, 394968, 395053, 395135, 395214, 395290, 395363, 395433,
       395501, 395566, 395629, 395689, 395747, 395803, 395857, 395909, 395959, 396007, 396054, 396099, 396143, 396185, 396226, 396266,
       396304, 396341, 396377, 396412, 396445, 396478, 396509, 396540, 396570, 396599, 396627, 396654, 396680, 396706, 396731, 396755,
       396778, 396801, 396823, 396844, 396865, 396885, 396905, 396924, 396943, 396961, 396979, 396996, 397012, 397028, 397044, 397059,
       397074, 397089, 397103, 397116, 397129, 397142, 397154, 397166, 397177, 397188, 397199, 397209, 397219, 397229, 397239, 397248,
       397257, 397265, 397273, 397281, 397288, 397295, 397301, 397307, 397313, 397319, 397324, 397329, 397334, 397338, 397342, 397346,
       397350, 397353, 397356, 397359, 397361, 397363, 397365, 397367, 397368, 397369, 397370, 397371, 397371, 397371, 397371, 397370,
       397369, 397368, 397367, 397365, 397363, 397361, 397358, 397355, 397352, 397349, 397345, 397341, 397337, 397332, 397327, 397322,
       397317, 397311, 397305, 397299, 397292, 397285, 397278, 397270, 397262, 397254, 397246, 397237, 397228, 397218, 397208, 397198,
       397188, 397177, 397166, 397154, 397142, 397130, 397118, 397105, 397092, 397078, 397064, 397050, 397035, 397020, 397004, 396988,
       396972, 396955, 396938, 396920, 396902, 396883, 396864, 396845, 396825, 396805, 396784, 396763, 396741, 396719, 396696, 396673,
       396649, 396625, 396600, 396575, 396549, 396523, 396496, 396468, 396440, 396411, 396381, 396351, 396320, 396289, 396257, 396224,
       396190, 396156, 396121, 396085, 396048, 396011, 395973, 395934, 395895, 395855, 395814, 395772, 395729, 395685, 395640, 395594,
       395547, 395499, 395451, 395401, 395350, 395298, 395245, 395191, 395136, 395080, 395023, 394965, 394905, 394844, 394782, 394719,
       394655, 394589, 394522, 394454, 394384, 394313, 394240, 394166, 394090, 394013, 393934, 393854, 393772, 393688, 393603, 393516,
       393427, 393337, 393245, 393151, 393055, 392957, 392857, 392755, 392651, 392546, 392438, 392328, 392216, 392102, 391986, 391868,
       391748, 391625, 391500, 391373, 391243, 391111, 390977, 390840, 390701, 390559, 390415, 390268, 390119, 389967, 389813, 389656,
       389497, 389335, 389170, 389003, 388833, 388660, 388485, 388307, 388126, 387942, 387756, 387567, 387375, 387181, 386984, 386784,
       386582, 386377, 386169, 385959, 385746, 385531, 385314, 385094, 384872, 384647, 384420, 384191, 383960, 383726, 383490, 383252,
       383012, 382771, 382528, 382283, 382037, 381790, 381541, 381291, 381040, 380787, 380534, 380280, 380025, 379769, 379513, 379257,
       379001, 378745, 378489, 378233, 377977, 377722, 377468, 377215, 376963, 376712, 376463, 376215, 375969, 375725, 375483, 375243,
       375006, 374771, 374539, 374310, 374084, 373861, 373642, 373427, 373215, 373007, 372803, 372604, 372409, 372219, 372033, 371852,
       371676, 371505, 371339, 371179, 371024, 370875, 370732, 370594, 370462, 370336, 370216, 370102, 369995, 369894, 369799, 369710,
       369627, 369551, 369481, 369417, 369360, 369309, 369265, 369227, 369195, 369169, 369150, 369137, 369130, 369129, 369134, 369145,
       369161, 369183, 369211, 369244, 369282, 369325, 369374, 369427, 369485, 369548, 369616, 369688, 369764, 369844, 369928, 370016,
       370107, 370201, 370299, 370400, 370504, 370610, 370719, 370830, 370943, 371058, 371175, 371293, 371413, 371534, 371656, 371779,
       371902, 372026, 372150, 372274, 372398, 372522, 372646, 372769, 372891, 373013, 373134, 373253, 373371, 373488, 373603, 373716,
       373827, 373936, 374043, 374147, 374249, 374348, 374444, 374537, 374628, 374716, 374800, 374881, 374959, 375033, 375103, 375170,
       375233, 375292, 375347, 375397, 375443, 375485, 375522, 375555, 375583, 375606, 375624, 375637, 375645, 375648, 375646, 375638,
       375625, 375606, 375581, 375551, 375515, 375473, 375425, 375370, 375309, 375241, 375167, 375086, 374998, 374903, 374801, 374692,
       374575, 374450, 374317, 374176, 374027, 373870, 373704, 373529, 373345, 373152, 372949, 372737, 372515, 372283, 372040, 371787,
       371523, 371247, 370960, 370661, 370349, 370025, 369688, 369337, 368973, 368595, 368202, 367794, 367371, 366932, 366476, 366003,
       365513, 365005, 364478, 363932, 363366, 362780, 362173, 361544, 360893, 360219, 359521, 358798, 358050, 357275, 356473, 355643,
       354784, 353895, 352975, 352023, 351039, 350021, 348968, 347879, 346753, 345589, 344385, 343141, 341855, 340525, 339151, 337731,
       336265, 334750, 333186, 331571, 329904, 328183, 326407, 324575, 322686, 320738, 318730, 316660, 314528, 312332, 310071, 307744,
       305350, 302888, 300358, 297758, 295088, 292347, 289535, 286652, 283697, 280670, 277572, 274402, 271161, 267850, 264470, 261021,
       257505, 253923, 250277, 246569, 242801, 238975, 235093, 231159, 227175, 223144, 219070, 214972, 210905, 206873, 202879, 198927,
       195062, 191392, 187906, 184594, 181446, 178452, 175579, 172799, 170108, 167503, 164981, 162539, 160173, 157881, 155660, 153508,
       151422, 149400, 147440, 145540, 143697, 141910, 140177, 138496, 136865, 135283, 133748, 132259, 130814, 129413, 128053, 126734,
       125454, 124212, 123007, 121838, 120704, 119604, 118537, 117502, 116498, 115524, 114580, 113665, 112778, 111919, 111086, 110279,
       109498, 108742, 108010, 107302, 106617, 105955, 105315, 104697, 104100, 103524, 102968, 102432, 101916, 101419, 100941, 100482,
       100041, 99618, 99213, 98825, 98454, 98100, 97762, 97441, 97136, 96847, 96574, 96316, 96073, 95846, 95634, 95436,
       95253, 95085, 94931, 94792, 94667, 94556, 94459, 94376, 94307, 94252, 94210, 94182, 94168, 94167, 94180, 94207,
       94247, 94301, 94368, 94449, 94544, 94652, 94774, 94910, 95059, 95222, 95399, 95590, 95795, 96014, 96248, 96496,
       96758, 97035, 97327, 97634, 97956, 98293, 98645, 99013, 99397, 99797, 100213, 100645, 101094, 101560, 102043, 102543,
       103061, 103597, 104151, 104724, 105316, 105927, 106558, 107209, 107881, 108573, 109287, 110022, 110780, 111560, 112364, 113191,
       114043, 114920, 115822, 116750, 117705, 118687, 119697, 120736, 121805, 122904, 124034, 125196, 126391, 127620, 128883, 130182,
       131518, 132892, 134304, 135757, 137251, 138787, 140367, 141992, 143664, 145384, 147154, 148975, 150849, 152778, 154763, 156806,
       158910, 161076, 163307, 165605, 167972, 170411, 172924, 175514, 178184, 180937, 183761, 186626, 189533, 192482, 195476, 198516,
       201604, 204689, 207724, 210707, 213637, 216511, 219328, 222087, 224822, 227542, 230244, 232927, 235588, 238225, 240836, 243419,
       245973, 248495, 250984, 253438, 255855, 258234, 260574, 262873, 265130, 267344, 269514, 271639, 273718, 275751, 277736, 279674,
       281563, 283404, 285195, 286937, 288629, 290271, 291863, 293405, 294897, 296339, 297731, 299073, 300366, 301609, 302803, 303948,
       305044, 306091, 307090, 308040, 308942, 309797, 310604, 311364, 312077, 312743, 313362, 313935, 314462, 314943, 315377, 315765,
       316108, 316405, 316656, 316861, 317020, 317133, 317199, 317219, 317192, 317118, 316997, 316828, 316610, 316344, 316028, 315662,
       315246, 314778, 314258, 313685, 313058, 312377, 311640, 310846, 309994, 309083, 308112, 307079, 305983, 304822, 303595, 302301,
       300938, 299504, 297998, 296417, 294761, 293027, 291214, 289319, 287341, 285278, 283128, 280890, 278561, 276140, 273626, 271016,
       268309, 265504, 262599, 259593, 256485, 253275, 249962, 246545, 243024, 239400, 235672, 231842, 227911, 223881, 219753, 215534,
       211291, 207028, 202749, 198458, 194227, 190172, 186286, 182562, 178993, 175555, 172203, 168936, 165752, 162650, 159628, 156684,
       153817, 151024, 148304, 145656, 143077, 140566, 138121, 135741, 133424, 131168, 128971, 126832, 124750, 122723, 120749, 118827,
       116956, 115134, 113360, 111632, 109949, 108310, 106714, 105159, 103645, 102170, 100733, 99333, 97969, 96640, 95345, 94083,
       92853, 91655, 90487, 89349, 88239, 87157, 86102, 85074, 84072, 83095, 82142, 81213, 80307, 79423, 78561, 77720,
       76900, 76100, 75320, 74559, 73816, 73091, 72384, 71694, 71021, 70364, 69723, 69098, 68488, 67892, 67311, 66744,
       66190, 65650, 65123, 64608, 64106, 63616, 63137, 62670, 62214, 61769, 61335, 60911, 60497, 60093, 59699, 59315,
       58940, 58574, 58217, 57868, 57528, 57196, 56872, 56556, 56248, 55947, 55654, 55368, 55089, 54817, 54552, 54293,
       54041, 53795, 53555, 53322, 53095, 52873, 52657, 52447, 52242, 52042, 51848, 51659, 51475, 51296, 51122, 50952,
       50787, 50626, 50470, 50318, 50170, 50027, 50000, 50000, 50000, 50000, 50000, 50000, 50000, 50000, 50000, 50000,
       50000, 50000, 50000, 50000, 50000, 50000, 50000, 50000, 50000, 50000, 50000, 50000, 50000, 50000, 50000, 50000,
       50000, 50000, 50000, 50000, 50000, 50000, 50000, 50000, 50000, 50000, 50000, 50000, 50000, 50000, 50000, 50000,
       50000, 50000, 50000, 50000, 50000, 50000, 50000, 50000, 50000, 50000, 50000, 50000, 50000, 50000, 50000, 50000,
       50000, 50000, 50000, 50000, 50000, 50000, 50000, 50000, 50000, 50000, 50000, 50000, 50000, 50000, 50000, 50000,
       50000, 50000, 50000, 50000, 50000, 50000, 50000, 50000, 50000, 50000, 50000, 50000, 50000, 50000, 50000, 50000,
       50000, 50000, 50000, 50000, 50000, 50000, 50000, 50000, 50000, 50000, 50000, 50000, 50000, 50000, 50000, 50000,
       50000, 50000, 50000, 50000, 50000, 50000, 50000, 50000, 50000, 50000, 50000, 50000, 50000, 50000, 50000, 50000,
       50000, 50000, 50000, 50000, 50000, 50000, 50000, 50000, 50000, 50000, 50000, 50000, 50000, 50000, 50000, 50000,
       50000, 50000, 50000, 50000, 50000, 50000, 50000, 50000, 50000, 50000, 50000, 50000, 50000, 50000, 50000, 50000,
       50000, 50000, 50000, 50000, 50000, 50000, 50000, 50000, 50000, 50000, 50000, 50000, 50000, 50000, 50000, 50000,
       50000, 50000, 50000, 50000, 50000, 50000, 50000, 50000, 50000, 50000, 50000, 50000, 50000, 50000, 50000, 50000,
       50000, 50000, 50000, 50000, 50000, 50000, 50000, 50000, 50000, 50000, 50000, 50000, 50000, 50000, 50000, 50000,
       50000, 50000, 50000, 50000, 50000, 50000, 50000, 50000, 50000, 50000, 50000, 50000, 50000, 50000, 50000, 50000,
       50000, 50000, 50000, 50000, 50000, 50000, 50000, 50000, 50000, 50000, 50000, 50000, 50000, 50000, 50000, 50000,
       50000, 50000, 50000, 50000, 50000, 50000, 50000, 50000, 50000, 50000, 50000, 50000, 50000, 50000, 50000, 50000,
       50000, 50000, 50000, 50000, 50000, 50000, 50000, 50000, 50000, 50000, 50000, 50000, 50000, 50000, 50000, 50000,
       50000, 50000, 50000, 50000, 50000, 50000, 50000, 50000, 50000, 50000, 50000, 50000, 50000, 50000, 50000, 50000,
       50000, 50000, 50000, 50000, 50000, 50000, 50000, 50000, 50000, 50000, 50000, 50000, 50000, 50000, 50000, 50000,
       50000, 50000, 50000, 50000, 50000, 50000, 50000, 50000, 50000, 50000, 50000, 50000, 50000, 50000, 50000, 50000,
       50000, 50000, 50000, 50000, 50000, 50000, 50000, 50004, 50014, 50030, 50052, 50080, 50114, 50154, 50200, 50252,
       50310, 50374, 50444, 50520, 50602, 50690, 50783, 50882, 50987, 51098, 51215, 51338, 51467, 51602, 51743, 51890,
       52043, 52203, 52369, 52541, 52719, 52904, 53095, 53293, 53497, 53708, 53926, 54150, 54381, 54619, 54864, 55117,
       55377, 55644, 55919, 56201, 56491, 56789, 57095, 57409, 57731, 58061, 58400, 58748, 59104, 59470, 59845, 60229,
       60623, 61027, 61441, 61865, 62299, 62744, 63200, 63667, 64145, 64635, 65137, 65651, 66178, 66718, 67271, 67838,
       68419, 69014, 69624, 70249, 70889, 71545, 72218, 72908, 73615, 74340, 75084, 75847, 76630, 77433, 78257, 79102,
       79970, 80861, 81776, 82715, 83680, 84671, 85690, 86737, 87813, 88920, 90059, 91230, 92436, 93677, 94955, 96271,
       97627, 99025, 100466, 101952, 103485, 105067, 106701, 108388, 110131, 111933, 113797, 115725, 117721, 119788, 121930, 124150,
       126453, 128843, 131325, 133904, 136586, 139376, 142281, 145307, 148462, 151754, 155192, 158785, 162544, 166480, 170605, 174932,
       179477, 184255, 189211, 194350, 199684, 205229, 210702, 216078, 221349, 226532, 231685, 236800, 241869, 246884, 251838, 256723,
       261533, 266262, 270903, 275452, 279903, 284253, 288498, 292634, 296659, 300571, 304368, 308049, 311614, 315062, 318393, 321608,
       324708, 327694, 330567, 333329, 335983, 338530, 340973, 343314, 345556, 347702, 349755, 351717, 353592, 355382, 357091, 358721,
       360275, 361756, 363167, 364511, 365791, 367009, 368168, 369270, 370318, 371314, 372261, 373161, 374015, 374827, 375598, 376330,
       377024, 377683, 378308, 378901, 379463, 379996, 380501, 380980, 381434, 381864, 382271, 382656, 383021, 383366, 383692, 384000,
       384292, 384567, 384827, 385072, 385303, 385521, 385726, 385919, 386101, 386272, 386433, 386584, 386725, 386857, 386980, 387096,
       387204, 387304, 387397, 387483, 387563, 387636, 387703, 387765, 387821, 387872, 387918, 387960, 387997, 388030, 388059, 388084,
       388105, 388123, 388137, 388148, 388157, 388163, 388166, 388167, 388165, 388160, 388154, 388146, 388136, 388124, 388110, 388095,
       388078, 388060, 388041, 388020, 387998, 387976, 387953, 387929, 387904, 387879, 387853, 387827, 387801, 387774, 387747, 387720,
       387694, 387668, 387642, 387617, 387592, 387568, 387544, 387521, 387499, 387477, 387456, 387436, 387417, 387399, 387383, 387368,
       387354, 387341, 387330, 387321, 387313, 387307, 387302, 387299, 387298, 387299, 387301, 387305, 387311, 387319, 387329, 387341,
       387355, 387371, 387389, 387409, 387431, 387455, 387482, 387511, 387542, 387575, 387610, 387647, 387686, 387727, 387770, 387816,
       387864, 387913, 387964, 388017, 388072, 388129, 388188, 388249, 388311, 388375, 388441, 388508, 388577, 388647, 388719, 388792,
       388866, 388941, 389018, 389096, 389175, 389255, 389336, 389417, 389499, 389582, 389665, 389749, 389833, 389918, 390003, 390089,
       390175, 390261, 390347, 390433, 390519, 390605, 390690, 390775, 390860, 390944, 391028, 391112, 391195, 391277, 391359, 391440,
       391521, 391601, 391680, 391758, 391835, 391912, 391987, 392061, 392135, 392208, 392279, 392349, 392418, 392486, 392553, 392619,
       392684, 392748, 392810, 392871, 392931, 392990, 393047, 393103, 393158, 393212, 393264, 393315, 393365, 393414, 393462, 393508,
       393553, 393597, 393640, 393682, 393722, 393761, 393799, 393836, 393872, 393907, 393940, 393972, 394004, 394034, 394063, 394091,
       394118, 394144, 394169, 394193, 394216, 394238, 394259, 394279, 394298, 394316, 394333, 394349, 394364, 394378, 394391, 394403,
       394414, 394424, 394433, 394441, 394449, 394455, 394461, 394466, 394470, 394473, 394475, 394476, 394476, 394475, 394473, 394471,
       394467, 394463, 394458, 394452, 394445, 394438, 394429, 394420, 394410, 394399, 394387, 394374, 394360, 394345, 394329, 394312,
       394295, 394276, 394257, 394236, 394215, 394192, 394169, 394144, 394119, 394092, 394065, 394036, 394007, 393976, 393944, 393911,
       393877, 393842, 393806, 393768, 393729, 393689, 393648, 393606, 393562, 393517, 393471, 393423, 393374, 393324, 393272, 393219,
       393164, 393108, 393050, 392990, 392929, 392866, 392801, 392735, 392667, 392597, 392525, 392452, 392377, 392300, 392221, 392140,
       392057, 391971, 391883, 391793, 391701, 391606, 391509, 391410, 391308, 391203, 391096, 390986, 390873, 390758, 390640, 390519,
       390395, 390268, 390137, 390003, 389866, 389725, 389581, 389434, 389283, 389128, 388970, 388808, 388642, 388472, 388297, 388118,
       387935, 387747, 387555, 387358, 387157, 386950, 386739, 386523, 386302, 386075, 385843, 385605, 385362, 385113, 384858, 384597,
       384330, 384057, 383778, 383493, 383201, 382903, 382598, 382286, 381968, 381643, 381310, 380970, 380623, 380269, 379907, 379538,
       379161, 378776, 378384, 377984, 377576, 377160, 376737, 376306, 375867, 375420, 374965, 374502, 374031, 373552, 373065, 372571,
       372069, 371559, 371042, 370517, 369985, 369446, 368900, 368347, 367787, 367221, 366649, 366071, 365487, 364898, 364304, 363705,
       363102, 362495, 361884, 361270, 360653, 360034, 359413, 358791, 358168, 357545, 356922, 356300, 355680, 355062, 354447, 353835,
       353227, 352624, 352027, 351436, 350852, 350276, 349708, 349150, 348602, 348065, 347539, 347026, 346526, 346040, 345569, 345114,
       344675, 344254, 343850, 343465, 343100, 342755, 342432, 342130, 341851, 341595, 341363, 341155, 340972, 340815, 340684, 340580,
       340503, 340454, 340433, 340440, 340476, 340541, 340635, 340759, 340912, 341095, 341308, 341550, 341822, 342123, 342453, 342813,
       343202, 343619, 344064, 344537, 345037, 345564, 346117, 346695, 347298, 347924, 348573, 349245, 349938, 350651, 351383, 352134,
       352902, 353686, 354485, 355297, 356122, 356958, 357804, 358659, 359521, 360390, 361264, 362141, 363020, 363901, 364782, 365661,
       366537, 367410, 368278, 369139, 369993, 370839, 371676, 372502, 373318, 374121, 374912, 375689, 376452, 377200, 377932, 378648,
       379348, 380031, 380697, 381345, 381976, 382589, 383184, 383760, 384318, 384858, 385380, 385884, 386370, 386839, 387290, 387724,
       388141, 388542, 388926, 389294, 389647, 389985, 390308, 390617, 390912, 391193, 391462, 391718, 391962, 392194, 392415, 392625,
       392825, 393015, 393195, 393366, 393528, 393682, 393828, 393966, 394097, 394221, 394339, 394450, 394556, 394656, 394751, 394841,
       394926, 395006, 395082, 395154, 395222, 395287, 395348, 395406, 395461, 395513, 395562, 395608, 395652, 395693, 395732, 395769,
       395804, 395838, 395870, 395900, 395928, 395955, 395980, 396004, 396027, 396049, 396069, 396088, 396106, 396123, 396139, 396154,
       396168, 396181, 396194, 396205, 396216, 396226, 396235, 396244, 396252, 396259, 396266, 396272, 396277, 396282, 396286, 396290,
       396293, 396295, 396297, 396298, 396299, 396299, 396299, 396298, 396297, 396295, 396293, 396291, 396288, 396284, 396280, 396276,
       396271, 396266, 396260, 396254, 396248, 396241, 396233, 396225, 396217, 396208, 396199, 396189, 396179, 396169, 396158, 396147,
       396135, 396123, 396111, 396098, 396085, 396071, 396057, 396042, 396027, 396011, 395995, 395979, 395962, 395945, 395927, 395909,
       395890, 395871, 395852, 395832, 395811, 395790, 395769, 395747, 395725, 395702, 395679, 395656, 395632, 395607, 395582, 395557,
       395531, 395505, 395478, 395451, 395423, 395395, 395366, 395337, 395307, 395277, 395247, 395216, 395184, 395152, 395119, 395086,
       395053, 395019, 394984, 394949, 394914, 394878, 394841, 394804, 394766, 394728, 394690, 394651, 394612, 394572, 394532, 394491,
       394450, 394408, 394366, 394323, 394280, 394237, 394193, 394148, 394103, 394058, 394012, 393966, 393920, 393873, 393826, 393778,
       393730, 393681, 393632, 393583, 393534, 393484, 393434, 393384, 393333, 393282, 393231, 393180, 393128, 393076, 393024, 392972,
       392920, 392868, 392815, 392762, 392709, 392656, 392603, 392550, 392497, 392444, 392391, 392338, 392286, 392234, 392182, 392130,
       392078, 392026, 391975, 391924, 391873, 391823, 391773, 391723, 391674, 391625, 391576, 391528, 391481, 391434, 391388, 391342,
       391297, 391253, 391209, 391166, 391124, 391083, 391042, 391002, 390963, 390925, 390888, 390852, 390817, 390783, 390749, 390717,
       390686, 390656, 390627, 390599, 390572, 390546, 390521, 390497, 390475, 390454, 390434, 390415, 390397, 390380, 390364, 390350,
       390337, 390325, 390314, 390304, 390296, 390289, 390283, 390278, 390275, 390272, 390270, 390270, 390271, 390273, 390276, 390280,
       390285, 390291, 390298, 390306, 390315, 390325, 390336, 390348, 390361, 390374, 390388, 390403, 390418, 390434, 390451, 390468,
       390486, 390505, 390524, 390543, 390563, 390584, 390605, 390626, 390647, 390669, 390691, 390713, 390735, 390757, 390779, 390801,
       390823, 390845, 390867, 390889, 390911, 390933, 390955, 390977, 390998, 391019, 391040, 391060, 391080, 391099, 391118, 391136,
       391154, 391171, 391187, 391203, 391218, 391232, 391246, 391259, 391271, 391282, 391292, 391301, 391310, 391318, 391325, 391331,
       391336, 391340, 391342, 391343, 391343, 391342, 391340, 391337, 391332, 391326, 391319, 391311, 391301, 391289, 391276, 391262,
       391246, 391228, 391209, 391188, 391166, 391142, 391116, 391088, 391059, 391028, 390995, 390960, 390923, 390884, 390842, 390798,
       390752, 390704, 390654, 390601, 390545, 390487, 390426, 390363, 390297, 390228, 390156, 390081, 390003, 389922, 389838, 389750,
       389658, 389563, 389464, 389361, 389254, 389143, 389027, 388907, 388782, 388653, 388518, 388378, 388233, 388082, 387925, 387763,
       387594, 387419, 387237, 387048, 386852, 386648, 386436, 386215, 385985, 385746, 385498, 385240, 384972, 384693, 384403, 384101,
       383786, 383458, 383117, 382761, 382391, 382005, 381603, 381183, 380745, 380288, 379811, 379313, 378793, 378250, 377683, 377090,
       376470, 375822, 375144, 374434, 373691, 372913, 372099, 371246, 370352, 369415, 368433, 367403, 366322, 365188, 363998, 362749,
       361437, 360060, 358613, 357093, 355496, 353818, 352055, 350202, 348255, 346208, 344057, 341797, 339422, 336926, 334304, 331550,
       328659, 325624, 322439, 319099, 315597, 311928, 308086, 304066, 299863, 295473, 290891, 286114, 281140, 275966, 270592, 265018,
       259245, 253277, 247117, 240771, 234247, 227553, 220701, 213704, 206677, 199648, 192659, 186180, 180165, 174573, 169278, 164256,
       159489, 154959, 150650, 146548, 142639, 138912, 135355, 131957, 128709, 125603, 122630, 119782, 117053, 114436, 111925, 109515,
       107200, 104975, 102836, 100778, 98798, 96891, 95054, 93284, 91578, 89933, 88346, 86814, 85335, 83906, 82526, 81192,
       79903, 78656, 77450, 76283, 75154, 74061, 73003, 71978, 70985, 70023, 69091, 68187, 67311, 66461, 65637, 64838,
       64062, 63309, 62578, 61869, 61181, 60513, 59864, 59234, 58622, 58027, 57449, 56888, 56342, 55812, 55297, 54796,
       54309, 53836, 53376, 52929, 52494, 52072, 51661, 51262, 50874, 50497, 50130, 50000, 50000, 50000, 50000, 50000,
       50000, 50000, 50000, 50000, 50000, 50000, 50000, 50000, 50000, 50000, 50000, 50000, 50000, 50000, 50000, 50000,
       50000, 50000, 50000, 50000, 50000, 50000, 50000, 50000, 50000, 50000, 50000, 50000, 50000, 50000, 50000, 50000,
       50000, 50000, 50000, 50000, 50000, 50000, 50000, 50000, 50000, 50000, 50000, 50000, 50000, 50000, 50000, 50000,
       50000, 50000, 50000, 50000, 50000, 50000, 50000, 50000, 50000, 50000, 50000, 50000, 50000, 50000, 50000, 50000,
       50000, 50000, 50000, 50000, 50000, 50000, 50000, 50000, 50000, 50000, 50000, 50000, 50000, 50000, 50000, 50000,
       50000, 50000, 50000, 50000, 50000, 50000, 50000, 50000, 50000, 50000, 50000, 50000, 50000, 50000, 50000, 50000,
       50000, 50000, 50000, 50000, 50000, 50000, 50000, 50000, 50000, 50000, 50000, 50000, 50000, 50000, 50000, 50000,
       50000, 50000, 50000, 50000, 50000, 50003, 50008, 50016, 50027, 50041, 50058, 50077, 50099, 50123, 50149, 50178,
       50209, 50242, 50277, 50314, 50353, 50394, 50437, 50482, 50529, 50577, 50627, 50678, 50731, 50785, 50840, 50897,
       50955, 51014, 51074, 51135, 51197, 51260, 51324, 51389, 51454, 51520, 51587, 51654, 51722, 51790, 51859, 51928,
       51997, 52067, 52137, 52207, 52277, 52347, 52417, 52487, 52557, 52626, 52695, 52764, 52832, 52900, 52968, 53035,
       53101, 53167, 53232, 53296, 53360, 53423, 53485, 53546, 53606, 53665, 53723, 53780, 53836, 53891, 53945, 53997,
       54048, 54098, 54146, 54193, 54239, 54283, 54326, 54367, 54407, 54445, 54482, 54517, 54550, 54582, 54612, 54640,
       54667, 54692, 54715, 54737, 54757, 54775, 54791, 54805, 54818, 54829, 54838, 54845, 54851, 54855, 54857, 54857,
       54855, 54852, 54847, 54840, 54832, 54822, 54810, 54796, 54781, 54764, 54746, 54726, 54704, 54681, 54656, 54630,
       54602, 54573, 54543, 54511, 54478, 54444, 54408, 54371, 54333, 54294, 54254, 54212, 54169, 54125, 54080, 54035,
       53989, 53942, 53894, 53845, 53796, 53746, 53695, 53644, 53592, 53540, 53487, 53434, 53380, 53326, 53272, 53218,
       53163, 53108, 53053, 52998, 52943, 52888, 52833, 52778, 52724, 52670, 52616, 52562, 52509, 52456, 52404, 52352,
       52301, 52250, 52200, 52150, 52101, 52053, 52006, 51959, 51913, 51868, 51824, 51781, 51739, 51698, 51658, 51619,
       51582, 51546, 51511, 51477, 51445, 51414, 51384, 51356, 51329, 51304, 51280, 51258, 51237, 51218, 51200, 51184,
       51170, 51157, 51146, 51137, 51130, 51124, 51120, 51118, 51118, 51120, 51124, 51130, 51138, 51148, 51160, 51174,
       51190, 51209, 51230, 51253, 51278, 51305, 51335, 51367, 51401, 51438, 51477, 51519, 51563, 51610, 51659, 51711,
       51765, 51822, 51881, 51943, 52008, 52075, 52145, 52218, 52293, 52371, 52452, 52536, 52623, 52713, 52806, 52902,
       53000, 53102, 53207, 53315, 53426, 53540, 53657, 53777, 53900, 54027, 54157, 54290, 54427, 54567, 54710, 54857,
       55007, 55161, 55318, 55479, 55644, 55812, 55984, 56160, 56339, 56522, 56709, 56900, 57095, 57294, 57497, 57704,
       57915, 58130, 58349, 58572, 58799, 59031, 59267, 59507, 59752, 60001, 60255, 60513, 60776, 61043, 61315, 61592,
       61873, 62159, 62450, 62746, 63047, 63353, 63664, 63980, 64301, 64627, 64958, 65294, 65636, 65983, 66335, 66692,
       67055, 67423, 67797, 68176, 68561, 68952, 69348, 69750, 70158, 70571, 70990, 71415, 71846, 72283, 72725, 73173,
       73627, 74087, 74553, 75025, 75503, 75987, 76477, 76973, 77475, 77983, 78497, 79017, 79542, 80073, 80610, 81153,
       81702, 82256, 82816, 83381, 83952, 84528, 85110, 85697, 86289, 86886, 87488, 88095, 88706, 89322, 89942, 90567,
       91196, 91828, 92464, 93104, 93747, 94393, 95042, 95693, 96346, 97001, 97658, 98317, 98977, 99637, 100298, 100959,
       101620, 102280, 102939, 103596, 104251, 104904, 105554, 106201, 106844, 107483, 108117, 108746, 109369, 109986, 110596, 111198,
       111792, 112378, 112955, 113522, 114078, 114624, 115158, 115680, 116189, 116685, 117167, 117634, 118086, 118522, 118942, 119345,
       119731, 120099, 120448, 120778, 121089, 121380, 121650, 121899, 122127, 122333, 122517, 122679, 122818, 122934, 123027, 123096,
       123142, 123164, 123162, 123136, 123086, 123012, 122914, 122792, 122646, 122476, 122283, 122066, 121826, 121563, 121278, 120970,
       120640, 120289, 119917, 119524, 119111, 118679, 118228, 117758, 117270, 116765, 116243, 115705, 115151, 114582, 113999, 113402,
       112792, 112170, 111536, 110891, 110236, 109571, 108897, 108215, 107525, 106828, 106125, 105416, 104702, 103983, 103260, 102534,
       101805, 101074, 100341, 99607, 98872, 98137, 97402, 96668, 95935, 95204, 94475, 93748, 93024, 92303, 91585, 90871,
       90161, 89456, 88755, 88059, 87369, 86684, 86005, 85331, 84663, 84002, 83347, 82699, 82057, 81422, 80794, 80173,
       79560, 78954, 78355, 77764, 77180, 76604, 76035, 75474, 74921, 74375, 73837, 73307, 72785, 72270, 71763, 71264,
       70773, 70289, 69813, 69345, 68885, 68432, 67987, 67549, 67119, 66696, 66281, 65873, 65473, 65080, 64694, 64315,
       63943, 63579, 63222, 62872, 62529, 62192, 61862, 61539, 61223, 60913, 60610, 60313, 60023, 59739, 59462, 59191,
       58926, 58667, 58414, 58167, 57927, 57692, 57463, 57240, 57023, 56812, 56606, 56406, 56212, 56023, 55839, 55661,
       55488, 55321, 55159, 55002, 54850, 54704, 54563, 54427, 54296, 54170, 54049, 53933, 53821, 53714, 53612, 53515,
       53423, 53335, 53252, 53174, 53100, 53031, 52966, 52906, 52851, 52800, 52754, 52712, 52674, 52641, 52612, 52588,
       52568, 52552, 52541, 52534, 52531, 52533, 52539, 52549, 52564, 52583, 52606, 52633, 52665, 52701, 52741, 52786,
       52835, 52888, 52945, 53007, 53073, 53143, 53218, 53297, 53380, 53468, 53560, 53656, 53757, 53862, 53972, 54086,
       54204, 54327, 54455, 54587, 54724, 54865, 55011, 55161, 55316, 55476, 55641, 55810, 55984, 56163, 56347, 56536,
       56730, 56929, 57133, 57342, 57556, 57775, 58000, 58230, 58465, 58706, 58952, 59204, 59461, 59724, 59993, 60267,
       60547, 60833, 61125, 61423, 61727, 62038, 62355, 62678, 63008, 63344, 63687, 64037, 64394, 64757, 65127, 65505,
       65890, 66282, 66682, 67089, 67504, 67927, 68357, 68796, 69243, 69698, 70161, 70633, 71114, 71603, 72101, 72608,
       73125, 73651, 74187, 74733, 75288, 75854, 76430, 77016, 77613, 78221, 78840, 79470, 80112, 80765, 81430, 82107,
       82797, 83499, 84214, 84942, 85683, 86438, 87207, 87990, 88787, 89599, 90426, 91268, 92126, 93000, 93890, 94797,
       95721, 96662, 97621, 98598, 99594, 100609, 101643, 102697, 103771, 104866, 105982, 107120, 108280, 109462, 110668, 111897,
       113151, 114430, 115734, 117064, 118421, 119806, 121219, 122661, 124133, 125635, 127169, 128735, 130334, 131967, 133635, 135338,
       137078, 138856, 140673, 142530, 144428, 146369, 148354, 150384, 152460, 154585, 156759, 158984, 161262, 163595, 165984, 168432,
       170940, 173510, 176145, 178847, 181618, 184434, 187276, 190147, 193046, 195975, 198934, 201925, 204891, 207798, 210647, 213438,
       216170, 218842, 221456, 224036, 226601, 229149, 231680, 234193, 236687, 239161, 241615, 244048, 246460, 248850, 251218, 253563,
       255885, 258183, 260457, 262707, 264932, 267132, 269307, 271457, 273582, 275682, 277757, 279807, 281832, 283831, 285805, 287754,
       289678, 291578, 293453, 295304, 297130, 298932, 300711, 302466, 304198, 305907, 307593, 309256, 310897, 312516, 314113, 315689,
       317243, 318777, 320290, 321783, 323256, 324709, 326142, 327556, 328951, 330327, 331685, 333025, 334347, 335651, 336937, 338206,
       339458, 340693, 341911, 343113, 344299, 345468, 346621, 347758, 348880, 349986, 351076, 352151, 353211, 354255, 355284, 356298,
       357297, 358281, 359251, 360206, 361146, 362071, 362982, 363878, 364759, 365626, 366478, 367316, 368139, 368947, 369741, 370520,
       371285, 372036, 372772, 373493, 374200, 374893, 375572, 376236, 376886, 377522, 378144, 378751, 379344, 379924, 380489, 381041,
       381579, 382103, 382614, 383112, 383597, 384068, 384526, 384972, 385405, 385826, 386234, 386630, 387014, 387386, 387747, 388096,
       388434, 388761, 389077, 389382, 389677, 389962, 390237, 390503, 390759, 391006, 391244, 391474, 391695, 391908, 392113, 392310,
       392500, 392682, 392857, 393026, 393188, 393344, 393494, 393638, 393776, 393908, 394035, 394157, 394275, 394388, 394496, 394600,
       394700, 394796, 394888, 394976, 395061, 395143, 395221, 395297, 395370, 395440, 395507, 395572, 395634, 395694, 395752, 395808,
       395862, 395914, 395964, 396012, 396058, 396103, 396147, 396189, 396230, 396270, 396308, 396345, 396381, 396416, 396449, 396481,
       396512, 396543, 396573, 396602, 396630, 396657, 396683, 396708, 396733, 396757, 396780, 396803, 396825, 396846, 396867, 396887,
       396907, 396926, 396945, 396963, 396981, 396998, 397014, 397030, 397046, 397061, 397076, 397090, 397104, 397117, 397130, 397143,
       397155, 397167, 397178, 397189, 397200, 397210, 397220, 397230, 397239, 397248, 397257, 397265, 397273, 397281, 397288, 397295,
       397302, 397308, 397314, 397320, 397325, 397330, 397335, 397339, 397343, 397347, 397351, 397354, 397357, 397360, 397362, 397364,
       397366, 397368, 397369, 397370, 397371, 397372, 397372, 397372, 397372, 397371, 397370, 397369, 397368, 397366, 397364, 397361,
       397358, 397355, 397352, 397349, 397345, 397341, 397337, 397332, 397327, 397322, 397317, 397311, 397305, 397299, 397292, 397285,
       397278, 397270, 397262, 397254, 397245, 397236, 397227, 397217, 397207, 397197, 397187, 397176, 397165, 397153, 397141, 397129,
       397117, 397104, 397091, 397077, 397063, 397049, 397034, 397019, 397003, 396987, 396971, 396954, 396937, 396919, 396901, 396882,
       396863, 396844, 396824, 396804, 396783, 396762, 396740, 396718, 396695, 396672, 396648, 396624, 396599, 396574, 396548, 396521,
       396494, 396466, 396438, 396409, 396379, 396349, 396318, 396286, 396254, 396221, 396187, 396153, 396118, 396082, 396045, 396008,
       395970, 395931, 395892, 395851, 395809, 395767, 395724, 395680, 395635, 395589, 395542, 395494, 395446, 395396, 395345, 395293,
       395240, 395186, 395131, 395075, 395018, 394960, 394900, 394839, 394777, 394714, 394649, 394583, 394516, 394447, 394377, 394306,
       394233, 394158, 394082, 394005, 393926, 393845, 393763, 393679, 393593, 393506, 393417, 393327, 393235, 393141, 393045, 392947,
       392847, 392745, 392641, 392535, 392427, 392317, 392205, 392091, 391975, 391857, 391736, 391613, 391488, 391360, 391230, 391098,
       390964, 390827, 390688, 390546, 390401, 390254, 390105, 389953, 389798, 389641, 389481, 389318, 389153, 388985, 388815, 388642,
       388466, 388287, 388106, 387922, 387736, 387547, 387355, 387161, 386964, 386764, 386562, 386357, 386149, 385939, 385726, 385511,
       385293, 385073, 384850, 384625, 384398, 384169, 383937, 383703, 383467, 383229, 382989, 382747, 382504, 382259, 382013, 381765,
       381516, 381266, 381015, 380762, 380509, 380255, 380000, 379744, 379488, 379232, 378976, 378720, 378464, 378208, 377952, 377697,
       377443, 377190, 376938, 376687, 376438, 376190, 375944, 375700, 375458, 375218, 374981, 374747, 374515, 374286, 374060, 373838,
       373619, 373404, 373193, 372986, 372783, 372584, 372389, 372199, 372014, 371834, 371659, 371489, 371324, 371164, 371010, 370861,
       370718, 370581, 370450, 370325, 370206, 370093, 369986, 369885, 369790, 369702, 369620, 369544, 369475, 369412, 369355, 369305,
       369261, 369224, 369193, 369168, 369149, 369136, 369129, 369128, 369133, 369144, 369161, 369184, 369212, 369246, 369285, 369329,
       369378, 369432, 369491, 369554, 369622, 369694, 369770, 369850, 369934, 370022, 370113, 370208, 370306, 370407, 370511, 370617,
       370726, 370837, 370950, 371065, 371182, 371300, 371420, 371541, 371663, 371786, 371910, 372034, 372158, 372282, 372406, 372530,
       372654, 372777, 372899, 373021, 373141, 373260, 373378, 373494, 373609, 373722, 373833, 373942, 374048, 374152, 374254, 374353,
       374449, 374542, 374633, 374720, 374804, 374885, 374963, 375037, 375107, 375173, 375235, 375293, 375347, 375397, 375443, 375484,
       375521, 375553, 375581, 375604, 375622, 375635, 375643, 375646, 375643, 375635, 375621, 375602, 375577, 375546, 375509, 375466,
       375417, 375362, 375301, 375233, 375158, 375077, 374988, 374893, 374790, 374680, 374562, 374436, 374303, 374161, 374011, 373853,
       373686, 373511, 373327, 373133, 372930, 372717, 372494, 372261, 372017, 371763, 371498, 371221, 370933, 370633, 370320, 369995,
       369656, 369304, 368939, 368559, 368165, 367755, 367330, 366889, 366432, 365958, 365466, 364956, 364428, 363880, 363313, 362725,
       362116, 361485, 360832, 360155, 359454, 358728, 357977, 357200, 356396, 355563, 354701, 353810, 352888, 351934, 350947, 349926,
       348870, 347778, 346648, 345480, 344272, 343024, 341734, 340401, 339023, 337599, 336128, 334609, 333040, 331420, 329748, 328022,
       326241, 324404, 322509, 320555, 318541, 316466, 314328, 312126, 309859, 307526, 305126, 302658, 300122, 297516, 294840, 292093,
       289275, 286385, 283423, 280390, 277285, 274109, 270862, 267545, 264158, 260703, 257181, 253593, 249942, 246228, 242454, 238623,
       234736, 230797, 226809, 222774, 218697, 214601, 210538, 206509, 202519, 198571, 194724, 191071, 187601, 184304, 181171, 178191,
       175327, 172555, 169872, 167275, 164760, 162325, 159966, 157681, 155466, 153320, 151240, 149224, 147269, 145374, 143536, 141754,
       140025, 138348, 136722, 135144, 133614, 132129, 130688, 129290, 127934, 126618, 125341, 124102, 122900, 121734, 120603, 119506,
       118442, 117410, 116409, 115438, 114497, 113585, 112701, 111844, 111014, 110210, 109431, 108677, 107947, 107241, 106558, 105898,
       105260, 104644, 104049, 103475, 102921, 102387, 101873, 101378, 100902, 100444, 100005, 99583, 99179, 98792, 98423, 98070,
       97734, 97414, 97110, 96822, 96550, 96293, 96052, 95826, 95615, 95419, 95237, 95070, 94917, 94779, 94655, 94545,
       94449, 94367, 94299, 94245, 94205, 94178, 94165, 94166, 94180, 94208, 94249, 94304, 94372, 94454, 94550, 94659,
       94782, 94919, 95070, 95234, 95412, 95604, 95810, 96031, 96266, 96515, 96779, 97057, 97350, 97658, 97981, 98319,
       98673, 99042, 99427, 99828, 100245, 100679, 101129, 101596, 102080, 102582, 103102, 103640, 104196, 104771, 105365, 105978,
       106611, 107264, 107937, 108631, 109347, 110084, 110844, 111626, 112432, 113262, 114116, 114995, 115899, 116829, 117786, 118771,
       119784, 120826, 121897, 122999, 124132, 125297, 126495, 127727, 128993, 130295, 131634, 133011, 134427, 135883, 137380, 138920,
       140504, 142133, 143809, 145533, 147307, 149132, 151010, 152943, 154933, 156982, 159091, 161263, 163500, 165804, 168177, 170622,
       173142, 175739, 178416, 181176, 184003, 186871, 189781, 192734, 195732, 198776, 201867, 204949, 207980, 210958, 213882, 216752,
       219564, 222318, 225052, 227770, 230471, 233152, 235811, 238446, 241055, 243636, 246187, 248706, 251192, 253643, 256057, 258433,
       260769, 263064, 265317, 267527, 269693, 271814, 273889, 275918, 277899, 279833, 281718, 283554, 285341, 287079, 288767, 290405,
       291993, 293531, 295019, 296457, 297845, 299183, 300471, 301710, 302900, 304040, 305131, 306174, 307168, 308114, 309012, 309862,
       310665, 311421, 312130, 312792, 313407, 313976, 314499, 314975, 315405, 315789, 316128, 316421, 316668, 316869, 317024, 317132,
       317194, 317210, 317179, 317101, 316975, 316802, 316580, 316309, 315989, 315619, 315198, 314726, 314202, 313624, 312992, 312306,
       311564, 310765, 309908, 308991, 308014, 306975, 305873, 304706, 303473, 302172, 300802, 299361, 297848, 296261, 294598, 292857,
       291036, 289134, 287148, 285077, 282919, 280673, 278336, 275907, 273384, 270765, 268049, 265235, 262321, 259306, 256189, 252970,
       249647, 246221, 242691, 239057, 235320, 231481, 227541, 223502, 219365, 215143, 210899, 206634, 202354, 198063, 193848, 189809,
       185938, 182228, 178672, 175242, 171898, 168639, 165463, 162368, 159353, 156416, 153556, 150770, 148057, 145415, 142843, 140338,
       137899, 135525, 133214, 130964, 128773, 126640, 124563, 122541, 120572, 118655, 116788, 114970, 113200, 111476, 109797, 108162,
       106570, 105019, 103508, 102037, 100604, 99207, 97846, 96520, 95228, 93969, 92742, 91547, 90382, 89246, 88139, 87060,
       86008, 84982, 83982, 83007, 82056, 81129, 80225, 79343, 78483, 77644, 76826, 76028, 75249, 74489, 73748, 73025,
       72320, 71632, 70960, 70305, 69666, 69042, 68433, 67839, 67259, 66693, 66141, 65602, 65076, 64562, 64061, 63572,
       63094, 62628, 62173, 61729, 61296, 60873, 60460, 60057, 59664, 59280, 58906, 58541, 58185, 57837, 57498, 57167,
       56844, 56529, 56222, 55922, 55629, 55344, 55066, 54795, 54530, 54272, 54020, 53775, 53536, 53303, 53076, 52855,
       52640, 52430, 52226, 52027, 51833, 51644, 51460, 51281, 51107, 50938, 50773, 50613, 50457, 50306, 50159, 50016,
       50000, 50000, 50000, 50000, 50000, 50000, 50000, 50000, 50000, 50000, 50000, 50000, 50000, 50000, 50000, 50000,
       50000, 50000, 50000, 50000, 50000, 50000, 50000, 50000, 50000, 50000, 50000, 50000, 50000, 50000, 50000, 50000,
       50000, 50000, 50000, 50000, 50000, 50000, 50000, 50000, 50000, 50000, 50000, 50000, 50000, 50000, 50000, 50000,
       50000, 50000, 50000, 50000, 50000, 50000, 50000, 50000, 50000, 50000, 50000, 50000, 50000, 50000, 50000, 50000,
       50000, 50000, 50000, 50000, 50000, 50000, 50000, 50000, 50000, 50000, 50000, 50000, 50000, 50000, 50000, 50000,
       50000, 50000, 50000, 50000, 50000, 50000, 50000, 50000, 50000, 50000, 50000, 50000, 50000, 50000, 50000, 50000,
       50000, 50000, 50000, 50000, 50000, 50000, 50000, 50000, 50000, 50000, 50000, 50000, 50000, 50000, 50000, 50000,
       50000, 50000, 50000, 50000, 50000, 50000, 50000, 50000, 50000, 50000, 50000, 50000, 50000, 50000, 50000, 50000,
       50000, 50000, 50000, 50000, 50000, 50000, 50000, 50000, 50000, 50000, 50000, 50000, 50000, 50000, 50000, 50000,
       50000, 50000, 50000, 50000, 50000, 50000, 50000, 50000, 50000, 50000, 50000, 50000, 50000, 50000, 50000, 50000,
       50000, 50000, 50000, 50000, 50000, 50000, 50000, 50000, 50000, 50000, 50000, 50000, 50000, 50000, 50000, 50000,
       50000, 50000, 50000, 50000, 50000, 50000, 50000, 50000, 50000, 50000, 50000, 50000, 50000, 50000, 50000, 50000,
       50000, 50000, 50000, 50000, 50000, 50000, 50000, 50000, 50000, 50000, 50000, 50000, 50000, 50000, 50000, 50000,
       50000, 50000, 50000, 50000, 50000, 50000, 50000, 50000, 50000, 50000, 50000, 50000, 50000, 50000, 50000, 50000,
       50000, 50000, 50000, 50000, 50000, 50000, 50000, 50000, 50000, 50000, 50000, 50000, 50000, 50000, 50000, 50000,
       50000, 50000, 50000, 50000, 50000, 50000, 50000, 50000, 50000, 50000, 50000, 50000, 50000, 50000, 50000, 50000,
       50000, 50000, 50000, 50000, 50000, 50000, 50000, 50000, 50000, 50000, 50000, 50000, 50000, 50000, 50000, 50000,
       50000, 50000, 50000, 50000, 50000, 50000, 50000, 50000, 50000, 50000, 50000, 50000, 50000, 50000, 50000, 50000,
       50000, 50000, 50000, 50000, 50000, 50000, 50000, 50000, 50000, 50000, 50000, 50000, 50000, 50000, 50000, 50000,
       50000, 50000, 50000, 50000, 50000, 50000, 50000, 50000, 50000, 50000, 50000, 50000, 50000, 50000, 50000, 50000,
       50000, 50005, 50016, 50033, 50056, 50085, 50120, 50161, 50208, 50261, 50320, 50384, 50454, 50530, 50612, 50700,
       50794, 50894, 51000, 51112, 51230, 51354, 51484, 51620, 51762, 51910, 52064, 52224, 52390, 52563, 52742, 52927,
       53119, 53317, 53522, 53734, 53952, 54177, 54409, 54648, 54894, 55147, 55407, 55675, 55950, 56233, 56524, 56822,
       57128, 57442, 57765, 58096, 58436, 58784, 59141, 59507, 59883, 60268, 60663, 61067, 61481, 61906, 62341, 62787,
       63244, 63712, 64191, 64682, 65185, 65700, 66228, 66769, 67323, 67891, 68473, 69069, 69680, 70306, 70948, 71606,
       72280, 72971, 73680, 74407, 75152, 75917, 76701, 77506, 78332, 79179, 80049, 80942, 81859, 82801, 83768, 84762,
       85783, 86833, 87912, 89022, 90163, 91337, 92546, 93790, 95071, 96391, 97751, 99152, 100597, 102087, 103624, 105211,
       106849, 108541, 110290, 112098, 113967, 115901, 117903, 119977, 122126, 124354, 126665, 129063, 131554, 134142, 136833, 139633,
       142548, 145586, 148753, 152058, 155510, 159118, 162892, 166844, 170986, 175332, 179897, 184697, 189670, 194826, 200179, 205734,
       211198, 216564, 221825, 227005, 232155, 237266, 242330, 247340, 252288, 257167, 261970, 266691, 271324, 275864, 280306, 284646,
       288881, 293007, 297022, 300924, 304711, 308381, 311935, 315372, 318693, 321897, 324986, 327961, 330824, 333576, 336220, 338757,
       341190, 343522, 345755, 347892, 349936, 351890, 353757, 355540, 357241, 358864, 360411, 361886, 363291, 364629, 365903, 367115,
       368269, 369366, 370409, 371401, 372343, 373238, 374089, 374897, 375664, 376392, 377083, 377739, 378361, 378951, 379511, 380041,
       380544, 381020, 381472, 381900, 382305, 382688, 383051, 383394, 383719, 384026, 384316, 384590, 384849, 385093, 385323, 385540,
       385744, 385936, 386117, 386287, 386447, 386597, 386738, 386869, 386992, 387107, 387214, 387313, 387405, 387490, 387569, 387642,
       387709, 387770, 387826, 387877, 387923, 387964, 388001, 388034, 388063, 388088, 388109, 388127, 388141, 388152, 388160, 388165,
       388167, 388167, 388165, 388160, 388153, 388144, 388133, 388121, 388107, 388092, 388075, 388056, 388036, 388015, 387993, 387971,
       387948, 387924, 387900, 387875, 387849, 387823, 387797, 387770, 387743, 387717, 387691, 387665, 387639, 387614, 387589, 387565,
       387541, 387518, 387496, 387475, 387454, 387434, 387415, 387397, 387381, 387366, 387352, 387340, 387329, 387320, 387312, 387306,
       387302, 387299, 387298, 387299, 387301, 387305, 387311, 387319, 387329, 387341, 387355, 387371, 387389, 387409, 387431, 387456,
       387483, 387512, 387543, 387576, 387611, 387648, 387688, 387730, 387774, 387820, 387868, 387917, 387968, 388021, 388076, 388133,
       388192, 388253, 388316, 388380, 388446, 388514, 388583, 388653, 388725, 388798, 388872, 388948, 389025, 389103, 389182, 389262,
       389343, 389425, 389507, 389590, 389674, 389758, 389842, 389927, 390012, 390098, 390184, 390270, 390356, 390442, 390528, 390614,
       390699, 390784, 390869, 390953, 391037, 391120, 391203, 391285, 391367, 391448, 391528, 391608, 391687, 391765, 391842, 391919,
       391994, 392068, 392142, 392215, 392286, 392356, 392425, 392493, 392560, 392626, 392690, 392753, 392815, 392876, 392936, 392994,
       393051, 393107, 393162, 393216, 393268, 393319, 393369, 393418, 393466, 393512, 393557, 393601, 393644, 393685, 393725, 393764,
       393802, 393839, 393875, 393910, 393943, 393975, 394006, 394036, 394065, 394093, 394120, 394146, 394171, 394195, 394218, 394239,
       394260, 394280, 394299, 394317, 394333, 394349, 394364, 394378, 394391, 394403, 394414, 394424, 394433, 394441, 394448, 394454,
       394460, 394465, 394469, 394472, 394474, 394475, 394475, 394474, 394472, 394470, 394466, 394462, 394457, 394451, 394444, 394436,
       394427, 394418, 394408, 394397, 394385, 394372, 394358, 394343, 394327, 394310, 394292, 394273, 394254, 394233, 394212, 394189,
       394166, 394141, 394116, 394089, 394062, 394033, 394003, 393972, 393940, 393907, 393873, 393838, 393802, 393764, 393725, 393685,
       393644, 393602, 393558, 393513, 393467, 393419, 393370, 393319, 393267, 393213, 393158, 393102, 393044, 392984, 392923, 392860,
       392795, 392728, 392660, 392590, 392518, 392444, 392369, 392292, 392213, 392132, 392048, 391962, 391874, 391784, 391691, 391596,
       391499, 391399, 391297, 391192, 391085, 390975, 390862, 390747, 390628, 390507, 390382, 390255, 390124, 389990, 389853, 389712,
       389568, 389420, 389269, 389114, 388955, 388792, 388625, 388454, 388279, 388100, 387916, 387728, 387536, 387339, 387137, 386930,
       386718, 386501, 386279, 386052, 385819, 385581, 385337, 385088, 384833, 384572, 384305, 384032, 383752, 383466, 383174, 382875,
       382570, 382258, 381939, 381613, 381280, 380940, 380593, 380238, 379876, 379506, 379129, 378744, 378351, 377950, 377541, 377125,
       376701, 376269, 375829, 375381, 374925, 374461, 373989, 373510, 373023, 372528, 372025, 371514, 370996, 370471, 369938, 369398,
       368851, 368297, 367737, 367170, 366597, 366018, 365434, 364844, 364249, 363650, 363046, 362438, 361827, 361213, 360596, 359977,
       359356, 358734, 358111, 357488, 356865, 356243, 355623, 355005, 354390, 353778, 353171, 352569, 351972, 351382, 350799, 350223,
       349656, 349098, 348551, 348015, 347490, 346978, 346479, 345994, 345524, 345070, 344633, 344213, 343811, 343428, 343065, 342722,
       342401, 342101, 341824, 341570, 341340, 341135, 340955, 340800, 340672, 340570, 340496, 340449, 340430, 340440, 340478, 340546,
       340643, 340769, 340925, 341110, 341325, 341570, 341844, 342148, 342481, 342843, 343234, 343654, 344102, 344577, 345079, 345608,
       346163, 346743, 347348, 347977, 348629, 349303, 349998, 350713, 351447, 352199, 352968, 353753, 354553, 355367, 356193, 357030,
       357877, 358733, 359596, 360465, 361339, 362216, 363096, 363977, 364857, 365736, 366612, 367484, 368351, 369212, 370066, 370911,
       371747, 372573, 373388, 374190, 374979, 375755, 376517, 377264, 377995, 378710, 379408, 380090, 380754, 381401, 382030, 382641,
       383234, 383809, 384366, 384905, 385425, 385928, 386413, 386880, 387330, 387762, 388178, 388577, 388960, 389327, 389679, 390015,
       390337, 390644, 390938, 391218, 391485, 391740, 391983, 392214, 392434, 392643, 392842, 393031, 393210, 393380, 393541, 393694,
       393839, 393977, 394108, 394232, 394349, 394460, 394565, 394664, 394758, 394847, 394931, 395011, 395087, 395159, 395227, 395291,
       395352, 395410, 395465, 395516, 395565, 395611, 395655, 395696, 395735, 395772, 395807, 395840, 395872, 395902, 395930, 395957,
       395982, 396006, 396029, 396050, 396070, 396089, 396107, 396124, 396140, 396155, 396169, 396182, 396194, 396205, 396216, 396226,
       396235, 396244, 396252, 396259, 396266, 396272, 396277, 396282, 396286, 396290, 396293, 396295, 396297, 396298, 396299, 396299,
       396299, 396298, 396297, 396295, 396293, 396291, 396288, 396284, 396280, 396276, 396271, 396266, 396260, 396254, 396247, 396240,
       396232, 396224, 396216, 396207, 396198, 396188, 396178, 396168, 396157, 396146, 396134, 396122, 396110, 396097, 396083, 396069,
       396055, 396040, 396025, 396009, 395993, 395977, 395960, 395943, 395925, 395907, 395888, 395869, 395850, 395830, 395809, 395788,
       395767, 395745, 395723, 395700, 395677, 395654, 395630, 395605, 395580, 395555, 395529, 395503, 395476, 395449, 395421, 395393,
       395364, 395335, 395305, 395275, 395244, 395213, 395181, 395149, 395116, 395083, 395049, 395015, 394980, 394945, 394910, 394874,
       394837, 394800, 394762, 394724, 394686, 394647, 394608, 394568, 394528, 394487, 394446, 394404, 394362, 394319, 394276, 394233,
       394189, 394144, 394099, 394053, 394007, 393961, 393915, 393868, 393821, 393773, 393725, 393676, 393627, 393578, 393529, 393479,
       393429, 393379, 393328, 393277, 393226, 393175, 393123, 393071, 393019, 392967, 392915, 392863, 392810, 392757, 392704, 392651,
       392598, 392545, 392492, 392439, 392386, 392333, 392281, 392229, 392177, 392125, 392073, 392021, 391970, 391919, 391868, 391818,
       391768, 391718, 391669, 391620, 391572, 391524, 391477, 391430, 391384, 391338, 391293, 391249, 391206, 391163, 391121, 391080,
       391040, 391000, 390961, 390923, 390886, 390850, 390815, 390781, 390748, 390716, 390685, 390655, 390626, 390598, 390571, 390545,
       390520, 390496, 390474, 390453, 390433, 390414, 390396, 390379, 390363, 390349, 390336, 390324, 390314, 390305, 390297, 390290,
       390284, 390279, 390276, 390274, 390272, 390272, 390273, 390275, 390278, 390282, 390287, 390293, 390300, 390308, 390317, 390327,
       390338, 390350, 390363, 390376, 390390, 390405, 390420, 390436, 390453, 390470, 390488, 390507, 390526, 390546, 390566, 390587,
       390608, 390629, 390650, 390672, 390694, 390716, 390738, 390760, 390782, 390804, 390826, 390848, 390870, 390892, 390914, 390936,
       390958, 390979, 391000, 391021, 391042, 391062, 391082, 391101, 391120, 391138, 391156, 391173, 391189, 391205, 391220, 391234,
       391248, 391261, 391273, 391284, 391294, 391303, 391312, 391320, 391326, 391332, 391336, 391340, 391342, 391343, 391343, 391342,
       391340, 391337, 391332, 391326, 391319, 391310, 391300, 391288, 391275, 391261, 391245, 391227, 391208, 391187, 391164, 391140,
       391114, 391086, 391056, 391025, 390992, 390957, 390920, 390880, 390838, 390794, 390748, 390700, 390649, 390596, 390540, 390482,
       390421, 390358, 390292, 390223, 390151, 390076, 389998, 389916, 389831, 389743, 389651, 389555, 389456, 389353, 389246, 389134,
       389018, 388898, 388773, 388643, 388508, 388368, 388222, 388071, 387914, 387751, 387581, 387405, 387222, 387032, 386835, 386630,
       386417, 386196, 385966, 385727, 385478, 385219, 384950, 384670, 384379, 384076, 383760, 383431, 383088, 382731, 382359, 381971,
       381567, 381146, 380706, 380247, 379768, 379268, 378746, 378201, 377631, 377036, 376414, 375763, 375082, 374370, 373624, 372843,
       372025, 371168, 370270, 369329, 368343, 367308, 366223, 365084, 363889, 362634, 361317, 359934, 358481, 356955, 355351, 353666,
       351895, 350034, 348078, 346022, 343862, 341591, 339205, 336698, 334065, 331299, 328395, 325347, 322149, 318795, 315279, 311595,
       307738, 303702, 299483, 295076, 290477, 285683, 280691, 275499, 270107, 264515, 258725, 252739, 246562, 240200, 233660, 226952,
       220087, 213077, 206049, 199021, 192078, 185641, 179664, 174100, 168829, 163830, 159084, 154574, 150284, 146199, 142307, 138595,
       135052, 131668, 128433, 125339, 122377, 119540, 116821, 114214, 111712, 109310, 107003, 104786, 102654, 100603, 98629, 96728,
       94897, 93133, 91432, 89792, 88209, 86682, 85207, 83783, 82407, 81077, 79791, 78548, 77346, 76183, 75057, 73967,
       72912, 71890, 70900, 69941, 69011, 68110, 67236, 66389, 65567, 64770, 63996, 63245, 62516, 61809, 61122, 60455,
       59808, 59179, 58568, 57975, 57399, 56839, 56295, 55766, 55252, 54753, 54267, 53795, 53336, 52890, 52456, 52035,
       51625, 51227, 50840, 50463, 50097, 50000, 50000, 50000, 50000, 50000, 50000, 50000, 50000, 50000, 50000, 50000,
       50000, 50000, 50000, 50000, 50000, 50000, 50000, 50000, 50000, 50000, 50000, 50000, 50000, 50000, 50000, 50000,
       50000, 50000, 50000, 50000, 50000, 50000, 50000, 50000, 50000, 50000, 50000, 50000, 50000, 50000, 50000, 50000,
       50000, 50000, 50000, 50000, 50000, 50000, 50000, 50000, 50000, 50000, 50000, 50000, 50000, 50000, 50000, 50000,
       50000, 50000, 50000, 50000, 50000, 50000, 50000, 50000, 50000, 50000, 50000, 50000, 50000, 50000, 50000, 50000,
       50000, 50000, 50000, 50000, 50000, 50000, 50000, 50000, 50000, 50000, 50000, 50000, 50000, 50000, 50000, 50000,
       50000, 50000, 50000, 50000, 50000, 50000, 50000, 50000, 50000, 50000, 50000, 50000, 50000, 50000, 50000, 50000,
       50000, 50000, 50000, 50000, 50000, 50000, 50000, 50000, 50000, 50000, 50000, 50000, 50000, 50000, 50000, 50003,
       50009, 50018, 50029, 50043, 50060, 50079, 50101, 50125, 50152, 50181, 50212, 50245, 50281, 50319, 50358, 50399,
       50442, 50487, 50534, 50582, 50632, 50683, 50736, 50790, 50846, 50903, 50961, 51020, 51080, 51141, 51203, 51266,
       51330, 51395, 51461, 51527, 51594, 51661, 51729, 51797, 51866, 51935, 52004, 52074, 52144, 52214, 52284, 52354,
       52424, 52494, 52564, 52633, 52702, 52771, 52839, 52907, 52974, 53041, 53107, 53173, 53238, 53302, 53366, 53429,
       53491, 53552, 53612, 53671, 53729, 53786, 53842, 53897, 53950, 54002, 54053, 54103, 54151, 54198, 54244, 54288,
       54331, 54372, 54412, 54450, 54486, 54521, 54554, 54586, 54616, 54644, 54671, 54696, 54719, 54740, 54760, 54778,
       54794, 54808, 54821, 54832, 54841, 54848, 54853, 54857, 54859, 54859, 54857, 54854, 54849, 54842, 54833, 54823,
       54811, 54797, 54782, 54765, 54746, 54726, 54704, 54681, 54656, 54630, 54602, 54573, 54542, 54510, 54477, 54442,
       54406, 54369, 54331, 54292, 54251, 54209, 54166, 54122, 54077, 54031, 53985, 53938, 53890, 53841, 53791, 53741,
       53690, 53639, 53587, 53535, 53482, 53429, 53375, 53321, 53267, 53213, 53158, 53103, 53048, 52993, 52938, 52883,
       52828, 52773, 52719, 52665, 52611, 52557, 52504, 52451, 52399, 52347, 52296, 52245, 52195, 52146, 52097, 52049,
       52002, 51956, 51910, 51865, 51821, 51778, 51736, 51695, 51655, 51616, 51579, 51543, 51508, 51474, 51442, 51411,
       51381, 51353, 51326, 51301, 51277, 51255, 51234, 51215, 51197, 51181, 51167, 51154, 51143, 51134, 51127, 51122,
       51118, 51116, 51116, 51118, 51122, 51128, 51136, 51146, 51158, 51173, 51190, 51209, 51230, 51253, 51278, 51306,
       51336, 51368, 51403, 51440, 51479, 51521, 51565, 51612, 51661, 51713, 51767, 51824, 51884, 51946, 52011, 52079,
       52149, 52222, 52298, 52376, 52457, 52541, 52628, 52718, 52811, 52907, 53006, 53108, 53213, 53321, 53432, 53546,
       53663, 53784, 53908, 54035, 54165, 54299, 54436, 54576, 54720, 54867, 55018, 55172, 55330, 55491, 55656, 55825,
       55997, 56173, 56353, 56537, 56724, 56915, 57110, 57309, 57512, 57719, 57930, 58145, 58364, 58588, 58816, 59048,
       59284, 59525, 59770, 60020, 60274, 60533, 60796, 61064, 61336, 61613, 61895, 62182, 62473, 62769, 63070, 63376,
       63687, 64003, 64324, 64650, 64982, 65319, 65661, 66008, 66361, 66719, 67082, 67451, 67825, 68205, 68590, 68981,
       69378, 69780, 70188, 70602, 71022, 71447, 71878, 72315, 72758, 73207, 73662, 74123, 74589, 75062, 75540, 76024,
       76514, 77010, 77512, 78020, 78534, 79054, 79580, 80112, 80649, 81192, 81741, 82296, 82856, 83422, 83993, 84570,
       85152, 85739, 86331, 86928, 87530, 88137, 88749, 89365, 89986, 90611, 91240, 91873, 92509, 93149, 93792, 94438,
       95087, 95738, 96392, 97048, 97705, 98364, 99024, 99684, 100345, 101006, 101667, 102327, 102986, 103643, 104298, 104951,
       105601, 106247, 106890, 107528, 108162, 108790, 109412, 110028, 110637, 111239, 111833, 112418, 112994, 113560, 114116, 114661,
       115194, 115715, 116223, 116718, 117199, 117665, 118116, 118551, 118970, 119372, 119756, 120122, 120470, 120799, 121108, 121397,
       121665, 121912, 122138, 122342, 122524, 122684, 122821, 122935, 123026, 123093, 123137, 123157, 123153, 123125, 123073, 122997,
       122897, 122773, 122625, 122453, 122258, 122039, 121797, 121532, 121245, 120935, 120604, 120251, 119877, 119483, 119069, 118635,
       118182, 117711, 117222, 116715, 116191, 115651, 115096, 114526, 113942, 113344, 112733, 112110, 111475, 110830, 110174, 109509,
       108835, 108152, 107462, 106765, 106061, 105352, 104638, 103919, 103196, 102470, 101741, 101010, 100277, 99543, 98808, 98073,
       97338, 96604, 95871, 95140, 94411, 93684, 92960, 92239, 91522, 90808, 90099, 89394, 88694, 87999, 87309, 86624,
       85945, 85272, 84605, 83944, 83290, 82642, 82001, 81367, 80740, 80120, 79507, 78901, 78303, 77712, 77129, 76553,
       75985, 75425, 74872, 74327, 73790, 73261, 72739, 72225, 71719, 71221, 70730, 70247, 69772, 69304, 68844, 68392,
       67947, 67510, 67081, 66659, 66244, 65837, 65437, 65044, 64659, 64281, 63910, 63546, 63189, 62839, 62496, 62160,
       61831, 61509, 61193, 60884, 60582, 60286, 59996, 59713, 59436, 59165, 58901, 58643, 58391, 58145, 57905, 57671,
       57443, 57221, 57004, 56793, 56588, 56388, 56194, 56006, 55823, 55645, 55473, 55306, 55144, 54988, 54837, 54691,
       54550, 54414, 54283, 54157, 54036, 53920, 53809, 53703, 53602, 53505, 53413, 53326, 53243, 53165, 53092, 53023,
       52959, 52899, 52844, 52793, 52747, 52705, 52668, 52635, 52607, 52583, 52563, 52548, 52537, 52530, 52528, 52530,
       52536, 52547, 52562, 52581, 52605, 52633, 52665, 52701, 52742, 52787, 52836, 52890, 52948, 53010, 53076, 53147,
       53222, 53301, 53385, 53473, 53565, 53662, 53763, 53869, 53979, 54093, 54212, 54335, 54463, 54596, 54733, 54875,
       55021, 55172, 55328, 55488, 55653, 55823, 55998, 56177, 56361, 56550, 56744, 56943, 57147, 57356, 57571, 57791,
       58016, 58246, 58482, 58723, 58970, 59222, 59480, 59743, 60012, 60287, 60568, 60855, 61148, 61447, 61752, 62063,
       62381, 62705, 63035, 63372, 63716, 64066, 64423, 64787, 65158, 65536, 65921, 66314, 66714, 67122, 67537, 67960,
       68391, 68830, 69277, 69733, 70197, 70670, 71151, 71641, 72140, 72648, 73166, 73693, 74230, 74776, 75332, 75899,
       76476, 77063, 77661, 78270, 78890, 79521, 80164, 80818, 81484, 82162, 82853, 83556, 84272, 85001, 85744, 86500,
       87270, 88054, 88853, 89666, 90494, 91338, 92197, 93072, 93964, 94872, 95797, 96740, 97701, 98680, 99677, 100693,
       101729, 102784, 103860, 104956, 106074, 107213, 108375, 109559, 110767, 111998, 113254, 114535, 115841, 117174, 118534, 119921,
       121337, 122781, 124255, 125760, 127296, 128864, 130465, 132100, 133770, 135476, 137219, 139000, 140820, 142680, 144582, 146526,
       148514, 150548, 152628, 154757, 156935, 159164, 161446, 163783, 166177, 168629, 171142, 173717, 176357, 179064, 181841, 184660,
       187506, 190378, 193279, 196210, 199172, 202166, 205127, 208030, 210874, 213660, 216387, 219055, 221664, 224243, 226806, 229353,
       231882, 234393, 236885, 239358, 241811, 244243, 246653, 249041, 251407, 253750, 256070, 258366, 260638, 262886, 265109, 267307,
       269481, 271630, 273753, 275851, 277924, 279972, 281995, 283992, 285964, 287911, 289833, 291731, 293604, 295453, 297277, 299078,
       300855, 302608, 304338, 306045, 307729, 309390, 311029, 312646, 314242, 315816, 317369, 318901, 320413, 321904, 323375, 324826,
       326258, 327671, 329065, 330440, 331796, 333134, 334454, 335757, 337042, 338310, 339561, 340795, 342012, 343212, 344396, 345564,
       346716, 347852, 348972, 350077, 351166, 352240, 353298, 354341, 355369, 356382, 357380, 358363, 359331, 360285, 361224, 362148,
       363057, 363952, 364832, 365697, 366548, 367384, 368206, 369013, 369806, 370584, 371348, 372097, 372832, 373552, 374258, 374950,
       375627, 376290, 376939, 377574, 378195, 378801, 379393, 379972, 380536, 381087, 381624, 382147, 382657, 383154, 383638, 384108,
       384565, 385010, 385442, 385862, 386269, 386664, 387047, 387418, 387777, 388125, 388462, 388788, 389103, 389408, 389702, 389986,
       390260, 390525, 390780, 391026, 391263, 391492, 391712, 391924, 392128, 392325, 392514, 392696, 392871, 393039, 393200, 393355,
       393504, 393647, 393785, 393917, 394044, 394166, 394283, 394396, 394504, 394608, 394708, 394804, 394896, 394984, 395069, 395150,
       395228, 395303, 395376, 395446, 395513, 395578, 395640, 395700, 395758, 395814, 395867, 395918, 395968, 396016, 396062, 396107,
       396150, 396192, 396233, 396272, 396310, 396347, 396383, 396418, 396451, 396483, 396514, 396545, 396575, 396604, 396632, 396659,
       396685, 396710, 396735, 396759, 396782, 396805, 396827, 396848, 396869, 396889, 396909, 396928, 396946, 396964, 396982, 396999,
       397015, 397031, 397047, 397062, 397077, 397091, 397105, 397118, 397131, 397144, 397156, 397168, 397179, 397190, 397201, 397211,
       397221, 397231, 397240, 397249, 397258, 397266, 397274, 397282, 397289, 397296, 397302, 397308, 397314, 397320, 397325, 397330,
       397335, 397339, 397343, 397347, 397351, 397354, 397357, 397360, 397362, 397364, 397366, 397368, 397369, 397370, 397371, 397372,
       397372, 397372, 397371, 397370, 397369, 397368, 397367, 397365, 397363, 397361, 397358, 397355, 397352, 397349, 397345, 397341,
       397337, 397332, 397327, 397322, 397317, 397311, 397305, 397298, 397291, 397284, 397276, 397268, 397260, 397252, 397244, 397235,
       397226, 397216, 397206, 397196, 397186, 397175, 397164, 397152, 397140, 397128, 397116, 397103, 397090, 397076, 397062, 397048,
       397033, 397018, 397002, 396986, 396970, 396953, 396936, 396918, 396900, 396881, 396862, 396843, 396823, 396802, 396781, 396760,
       396738, 396716, 396693, 396670, 396646, 396622, 396597, 396572, 396546 >>

\* list(self.buffer_t) after 9960 steps, in steps.

BufferTTardio ==
    <<
       0, 0, 1, 2, 3, 4, 5, 6, 7, 8, 9, 10, 11, 12, 13, 14,
       15, 16, 17, 18, 19, 20, 21, 22, 23, 24, 25, 26, 27, 28, 29, 30,
       31, 32, 33, 34, 35, 36, 37, 38, 39, 40, 41, 42, 43, 44, 45, 46,
       47, 48, 49, 50, 51, 52, 53, 54, 55, 56, 57, 58, 59, 60, 61, 62,
       63, 64, 65, 66, 67, 68, 69, 70, 71, 72, 73, 74, 75, 76, 77, 78,
       79, 80, 81, 82, 83, 84, 85, 86, 87, 88, 89, 90, 91, 92, 93, 94,
       95, 96, 97, 98, 99, 100, 101, 102, 103, 104, 105, 106, 107, 108, 109, 110,
       111, 112, 113, 114, 115, 116, 117, 118, 119, 120, 121, 122, 123, 124, 125, 126,
       127, 128, 129, 130, 131, 132, 133, 134, 135, 136, 137, 138, 139, 140, 141, 142,
       143, 144, 145, 146, 147, 148, 149, 150, 151, 152, 153, 154, 155, 156, 157, 158,
       159, 160, 161, 162, 163, 164, 165, 166, 167, 168, 169, 170, 171, 172, 173, 174,
       175, 176, 177, 178, 179, 180, 181, 182, 183, 184, 185, 186, 187, 188, 189, 190,
       191, 192, 193, 194, 195, 196, 197, 198, 199, 200, 201, 202, 203, 204, 205, 206,
       207, 208, 209, 210, 211, 212, 213, 214, 215, 216, 217, 218, 219, 220, 221, 222,
       223, 224, 225, 226, 227, 228, 229, 230, 231, 232, 233, 234, 235, 236, 237, 238,
       239, 240, 241, 242, 243, 244, 245, 246, 247, 248, 249, 250, 251, 252, 253, 254,
       255, 256, 257, 258, 259, 260, 261, 262, 263, 264, 265, 266, 267, 268, 269, 270,
       271, 272, 273, 274, 275, 276, 277, 278, 279, 280, 281, 282, 283, 284, 285, 286,
       287, 288, 289, 290, 291, 292, 293, 294, 295, 296, 297, 298, 299, 300, 301, 302,
       303, 304, 305, 306, 307, 308, 309, 310, 311, 312, 313, 314, 315, 316, 317, 318,
       319, 320, 321, 322, 323, 324, 325, 326, 327, 328, 329, 330, 331, 332, 333, 334,
       335, 336, 337, 338, 339, 340, 341, 342, 343, 344, 345, 346, 347, 348, 349, 350,
       351, 352, 353, 354, 355, 356, 357, 358, 359, 360, 361, 362, 363, 364, 365, 366,
       367, 368, 369, 370, 371, 372, 373, 374, 375, 376, 377, 378, 379, 380, 381, 382,
       383, 384, 385, 386, 387, 388, 389, 390, 391, 392, 393, 394, 395, 396, 397, 398,
       399, 400, 401, 402, 403, 404, 405, 406, 407, 408, 409, 410, 411, 412, 413, 414,
       415, 416, 417, 418, 419, 420, 421, 422, 423, 424, 425, 426, 427, 428, 429, 430,
       431, 432, 433, 434, 435, 436, 437, 438, 439, 440, 441, 442, 443, 444, 445, 446,
       447, 448, 449, 450, 451, 452, 453, 454, 455, 456, 457, 458, 459, 460, 461, 462,
       463, 464, 465, 466, 467, 468, 469, 470, 471, 472, 473, 474, 475, 476, 477, 478,
       479, 480, 481, 482, 483, 484, 485, 486, 487, 488, 489, 490, 491, 492, 493, 494,
       495, 496, 497, 498, 499, 500, 501, 502, 503, 504, 505, 506, 507, 508, 509, 510,
       511, 512, 513, 514, 515, 516, 517, 518, 519, 520, 521, 522, 523, 524, 525, 526,
       527, 528, 529, 530, 531, 532, 533, 534, 535, 536, 537, 538, 539, 540, 541, 542,
       543, 544, 545, 546, 547, 548, 549, 550, 551, 552, 553, 554, 555, 556, 557, 558,
       559, 560, 561, 562, 563, 564, 565, 566, 567, 568, 569, 570, 571, 572, 573, 574,
       575, 576, 577, 578, 579, 580, 581, 582, 583, 584, 585, 586, 587, 588, 589, 590,
       591, 592, 593, 594, 595, 596, 597, 598, 599, 600, 601, 602, 603, 604, 605, 606,
       607, 608, 609, 610, 611, 612, 613, 614, 615, 616, 617, 618, 619, 620, 621, 622,
       623, 624, 625, 626, 627, 628, 629, 630, 631, 632, 633, 634, 635, 636, 637, 638,
       639, 640, 641, 642, 643, 644, 645, 646, 647, 648, 649, 650, 651, 652, 653, 654,
       655, 656, 657, 658, 659, 660, 661, 662, 663, 664, 665, 666, 667, 668, 669, 670,
       671, 672, 673, 674, 675, 676, 677, 678, 679, 680, 681, 682, 683, 684, 685, 686,
       687, 688, 689, 690, 691, 692, 693, 694, 695, 696, 697, 698, 699, 700, 701, 702,
       703, 704, 705, 706, 707, 708, 709, 710, 711, 712, 713, 714, 715, 716, 717, 718,
       719, 720, 721, 722, 723, 724, 725, 726, 727, 728, 729, 730, 731, 732, 733, 734,
       735, 736, 737, 738, 739, 740, 741, 742, 743, 744, 745, 746, 747, 748, 749, 750,
       751, 752, 753, 754, 755, 756, 757, 758, 759, 760, 761, 762, 763, 764, 765, 766,
       767, 768, 769, 770, 771, 772, 773, 774, 775, 776, 777, 778, 779, 780, 781, 782,
       783, 784, 785, 786, 787, 788, 789, 790, 791, 792, 793, 794, 795, 796, 797, 798,
       799, 800, 801, 802, 803, 804, 805, 806, 807, 808, 809, 810, 811, 812, 813, 814,
       815, 816, 817, 818, 819, 820, 821, 822, 823, 824, 825, 826, 827, 828, 829, 830,
       831, 832, 833, 834, 835, 836, 837, 838, 839, 840, 841, 842, 843, 844, 845, 846,
       847, 848, 849, 850, 851, 852, 853, 854, 855, 856, 857, 858, 859, 860, 861, 862,
       863, 864, 865, 866, 867, 868, 869, 870, 871, 872, 873, 874, 875, 876, 877, 878,
       879, 880, 881, 882, 883, 884, 885, 886, 887, 888, 889, 890, 891, 892, 893, 894,
       895, 896, 897, 898, 899, 900, 901, 902, 903, 904, 905, 906, 907, 908, 909, 910,
       911, 912, 913, 914, 915, 916, 917, 918, 919, 920, 921, 922, 923, 924, 925, 926,
       927, 928, 929, 930, 931, 932, 933, 934, 935, 936, 937, 938, 939, 940, 941, 942,
       943, 944, 945, 946, 947, 948, 949, 950, 951, 952, 953, 954, 955, 956, 957, 958,
       959, 960, 961, 962, 963, 964, 965, 966, 967, 968, 969, 970, 971, 972, 973, 974,
       975, 976, 977, 978, 979, 980, 981, 982, 983, 984, 985, 986, 987, 988, 989, 990,
       991, 992, 993, 994, 995, 996, 997, 998, 999, 1000, 1001, 1002, 1003, 1004, 1005, 1006,
       1007, 1008, 1009, 1010, 1011, 1012, 1013, 1014, 1015, 1016, 1017, 1018, 1019, 1020, 1021, 1022,
       1023, 1024, 1025, 1026, 1027, 1028, 1029, 1030, 1031, 1032, 1033, 1034, 1035, 1036, 1037, 1038,
       1039, 1040, 1041, 1042, 1043, 1044, 1045, 1046, 1047, 1048, 1049, 1050, 1051, 1052, 1053, 1054,
       1055, 1056, 1057, 1058, 1059, 1060, 1061, 1062, 1063, 1064, 1065, 1066, 1067, 1068, 1069, 1070,
       1071, 1072, 1073, 1074, 1075, 1076, 1077, 1078, 1079, 1080, 1081, 1082, 1083, 1084, 1085, 1086,
       1087, 1088, 1089, 1090, 1091, 1092, 1093, 1094, 1095, 1096, 1097, 1098, 1099, 1100, 1101, 1102,
       1103, 1104, 1105, 1106, 1107, 1108, 1109, 1110, 1111, 1112, 1113, 1114, 1115, 1116, 1117, 1118,
       1119, 1120, 1121, 1122, 1123, 1124, 1125, 1126, 1127, 1128, 1129, 1130, 1131, 1132, 1133, 1134,
       1135, 1136, 1137, 1138, 1139, 1140, 1141, 1142, 1143, 1144, 1145, 1146, 1147, 1148, 1149, 1150,
       1151, 1152, 1153, 1154, 1155, 1156, 1157, 1158, 1159, 1160, 1161, 1162, 1163, 1164, 1165, 1166,
       1167, 1168, 1169, 1170, 1171, 1172, 1173, 1174, 1175, 1176, 1177, 1178, 1179, 1180, 1181, 1182,
       1183, 1184, 1185, 1186, 1187, 1188, 1189, 1190, 1191, 1192, 1193, 1194, 1195, 1196, 1197, 1198,
       1199, 1200, 1201, 1202, 1203, 1204, 1205, 1206, 1207, 1208, 1209, 1210, 1211, 1212, 1213, 1214,
       1215, 1216, 1217, 1218, 1219, 1220, 1221, 1222, 1223, 1224, 1225, 1226, 1227, 1228, 1229, 1230,
       1231, 1232, 1233, 1234, 1235, 1236, 1237, 1238, 1239, 1240, 1241, 1242, 1243, 1244, 1245, 1246,
       1247, 1248, 1249, 1250, 1251, 1252, 1253, 1254, 1255, 1256, 1257, 1258, 1259, 1260, 1261, 1262,
       1263, 1264, 1265, 1266, 1267, 1268, 1269, 1270, 1271, 1272, 1273, 1274, 1275, 1276, 1277, 1278,
       1279, 1280, 1281, 1282, 1283, 1284, 1285, 1286, 1287, 1288, 1289, 1290, 1291, 1292, 1293, 1294,
       1295, 1296, 1297, 1298, 1299, 1300, 1301, 1302, 1303, 1304, 1305, 1306, 1307, 1308, 1309, 1310,
       1311, 1312, 1313, 1314, 1315, 1316, 1317, 1318, 1319, 1320, 1321, 1322, 1323, 1324, 1325, 1326,
       1327, 1328, 1329, 1330, 1331, 1332, 1333, 1334, 1335, 1336, 1337, 1338, 1339, 1340, 1341, 1342,
       1343, 1344, 1345, 1346, 1347, 1348, 1349, 1350, 1351, 1352, 1353, 1354, 1355, 1356, 1357, 1358,
       1359, 1360, 1361, 1362, 1363, 1364, 1365, 1366, 1367, 1368, 1369, 1370, 1371, 1372, 1373, 1374,
       1375, 1376, 1377, 1378, 1379, 1380, 1381, 1382, 1383, 1384, 1385, 1386, 1387, 1388, 1389, 1390,
       1391, 1392, 1393, 1394, 1395, 1396, 1397, 1398, 1399, 1400, 1401, 1402, 1403, 1404, 1405, 1406,
       1407, 1408, 1409, 1410, 1411, 1412, 1413, 1414, 1415, 1416, 1417, 1418, 1419, 1420, 1421, 1422,
       1423, 1424, 1425, 1426, 1427, 1428, 1429, 1430, 1431, 1432, 1433, 1434, 1435, 1436, 1437, 1438,
       1439, 1440, 1441, 1442, 1443, 1444, 1445, 1446, 1447, 1448, 1449, 1450, 1451, 1452, 1453, 1454,
       1455, 1456, 1457, 1458, 1459, 1460, 1461, 1462, 1463, 1464, 1465, 1466, 1467, 1468, 1469, 1470,
       1471, 1472, 1473, 1474, 1475, 1476, 1477, 1478, 1479, 1480, 1481, 1482, 1483, 1484, 1485, 1486,
       1487, 1488, 1489, 1490, 1491, 1492, 1493, 1494, 1495, 1496, 1497, 1498, 1499, 1500, 1501, 1502,
       1503, 1504, 1505, 1506, 1507, 1508, 1509, 1510, 1511, 1512, 1513, 1514, 1515, 1516, 1517, 1518,
       1519, 1520, 1521, 1522, 1523, 1524, 1525, 1526, 1527, 1528, 1529, 1530, 1531, 1532, 1533, 1534,
       1535, 1536, 1537, 1538, 1539, 1540, 1541, 1542, 1543, 1544, 1545, 1546, 1547, 1548, 1549, 1550,
       1551, 1552, 1553, 1554, 1555, 1556, 1557, 1558, 1559, 1560, 1561, 1562, 1563, 1564, 1565, 1566,
       1567, 1568, 1569, 1570, 1571, 1572, 1573, 1574, 1575, 1576, 1577, 1578, 1579, 1580, 1581, 1582,
       1583, 1584, 1585, 1586, 1587, 1588, 1589, 1590, 1591, 1592, 1593, 1594, 1595, 1596, 1597, 1598,
       1599, 1600, 1601, 1602, 1603, 1604, 1605, 1606, 1607, 1608, 1609, 1610, 1611, 1612, 1613, 1614,
       1615, 1616, 1617, 1618, 1619, 1620, 1621, 1622, 1623, 1624, 1625, 1626, 1627, 1628, 1629, 1630,
       1631, 1632, 1633, 1634, 1635, 1636, 1637, 1638, 1639, 1640, 1641, 1642, 1643, 1644, 1645, 1646,
       1647, 1648, 1649, 1650, 1651, 1652, 1653, 1654, 1655, 1656, 1657, 1658, 1659, 1660, 1661, 1662,
       1663, 1664, 1665, 1666, 1667, 1668, 1669, 1670, 1671, 1672, 1673, 1674, 1675, 1676, 1677, 1678,
       1679, 1680, 1681, 1682, 1683, 1684, 1685, 1686, 1687, 1688, 1689, 1690, 1691, 1692, 1693, 1694,
       1695, 1696, 1697, 1698, 1699, 1700, 1701, 1702, 1703, 1704, 1705, 1706, 1707, 1708, 1709, 1710,
       1711, 1712, 1713, 1714, 1715, 1716, 1717, 1718, 1719, 1720, 1721, 1722, 1723, 1724, 1725, 1726,
       1727, 1728, 1729, 1730, 1731, 1732, 1733, 1734, 1735, 1736, 1737, 1738, 1739, 1740, 1741, 1742,
       1743, 1744, 1745, 1746, 1747, 1748, 1749, 1750, 1751, 1752, 1753, 1754, 1755, 1756, 1757, 1758,
       1759, 1760, 1761, 1762, 1763, 1764, 1765, 1766, 1767, 1768, 1769, 1770, 1771, 1772, 1773, 1774,
       1775, 1776, 1777, 1778, 1779, 1780, 1781, 1782, 1783, 1784, 1785, 1786, 1787, 1788, 1789, 1790,
       1791, 1792, 1793, 1794, 1795, 1796, 1797, 1798, 1799, 1800, 1801, 1802, 1803, 1804, 1805, 1806,
       1807, 1808, 1809, 1810, 1811, 1812, 1813, 1814, 1815, 1816, 1817, 1818, 1819, 1820, 1821, 1822,
       1823, 1824, 1825, 1826, 1827, 1828, 1829, 1830, 1831, 1832, 1833, 1834, 1835, 1836, 1837, 1838,
       1839, 1840, 1841, 1842, 1843, 1844, 1845, 1846, 1847, 1848, 1849, 1850, 1851, 1852, 1853, 1854,
       1855, 1856, 1857, 1858, 1859, 1860, 1861, 1862, 1863, 1864, 1865, 1866, 1867, 1868, 1869, 1870,
       1871, 1872, 1873, 1874, 1875, 1876, 1877, 1878, 1879, 1880, 1881, 1882, 1883, 1884, 1885, 1886,
       1887, 1888, 1889, 1890, 1891, 1892, 1893, 1894, 1895, 1896, 1897, 1898, 1899, 1900, 1901, 1902,
       1903, 1904, 1905, 1906, 1907, 1908, 1909, 1910, 1911, 1912, 1913, 1914, 1915, 1916, 1917, 1918,
       1919, 1920, 1921, 1922, 1923, 1924, 1925, 1926, 1927, 1928, 1929, 1930, 1931, 1932, 1933, 1934,
       1935, 1936, 1937, 1938, 1939, 1940, 1941, 1942, 1943, 1944, 1945, 1946, 1947, 1948, 1949, 1950,
       1951, 1952, 1953, 1954, 1955, 1956, 1957, 1958, 1959, 1960, 1961, 1962, 1963, 1964, 1965, 1966,
       1967, 1968, 1969, 1970, 1971, 1972, 1973, 1974, 1975, 1976, 1977, 1978, 1979, 1980, 1981, 1982,
       1983, 1984, 1985, 1986, 1987, 1988, 1989, 1990, 1991, 1992, 1993, 1994, 1995, 1996, 1997, 1998,
       1999, 2000, 2001, 2002, 2003, 2004, 2005, 2006, 2007, 2008, 2009, 2010, 2011, 2012, 2013, 2014,
       2015, 2016, 2017, 2018, 2019, 2020, 2021, 2022, 2023, 2024, 2025, 2026, 2027, 2028, 2029, 2030,
       2031, 2032, 2033, 2034, 2035, 2036, 2037, 2038, 2039, 2040, 2041, 2042, 2043, 2044, 2045, 2046,
       2047, 2048, 2049, 2050, 2051, 2052, 2053, 2054, 2055, 2056, 2057, 2058, 2059, 2060, 2061, 2062,
       2063, 2064, 2065, 2066, 2067, 2068, 2069, 2070, 2071, 2072, 2073, 2074, 2075, 2076, 2077, 2078,
       2079, 2080, 2081, 2082, 2083, 2084, 2085, 2086, 2087, 2088, 2089, 2090, 2091, 2092, 2093, 2094,
       2095, 2096, 2097, 2098, 2099, 2100, 2101, 2102, 2103, 2104, 2105, 2106, 2107, 2108, 2109, 2110,
       2111, 2112, 2113, 2114, 2115, 2116, 2117, 2118, 2119, 2120, 2121, 2122, 2123, 2124, 2125, 2126,
       2127, 2128, 2129, 2130, 2131, 2132, 2133, 2134, 2135, 2136, 2137, 2138, 2139, 2140, 2141, 2142,
       2143, 2144, 2145, 2146, 2147, 2148, 2149, 2150, 2151, 2152, 2153, 2154, 2155, 2156, 2157, 2158,
       2159, 2160, 2161, 2162, 2163, 2164, 2165, 2166, 2167, 2168, 2169, 2170, 2171, 2172, 2173, 2174,
       2175, 2176, 2177, 2178, 2179, 2180, 2181, 2182, 2183, 2184, 2185, 2186, 2187, 2188, 2189, 2190,
       2191, 2192, 2193, 2194, 2195, 2196, 2197, 2198, 2199, 2200, 2201, 2202, 2203, 2204, 2205, 2206,
       2207, 2208, 2209, 2210, 2211, 2212, 2213, 2214, 2215, 2216, 2217, 2218, 2219, 2220, 2221, 2222,
       2223, 2224, 2225, 2226, 2227, 2228, 2229, 2230, 2231, 2232, 2233, 2234, 2235, 2236, 2237, 2238,
       2239, 2240, 2241, 2242, 2243, 2244, 2245, 2246, 2247, 2248, 2249, 2250, 2251, 2252, 2253, 2254,
       2255, 2256, 2257, 2258, 2259, 2260, 2261, 2262, 2263, 2264, 2265, 2266, 2267, 2268, 2269, 2270,
       2271, 2272, 2273, 2274, 2275, 2276, 2277, 2278, 2279, 2280, 2281, 2282, 2283, 2284, 2285, 2286,
       2287, 2288, 2289, 2290, 2291, 2292, 2293, 2294, 2295, 2296, 2297, 2298, 2299, 2300, 2301, 2302,
       2303, 2304, 2305, 2306, 2307, 2308, 2309, 2310, 2311, 2312, 2313, 2314, 2315, 2316, 2317, 2318,
       2319, 2320, 2321, 2322, 2323, 2324, 2325, 2326, 2327, 2328, 2329, 2330, 2331, 2332, 2333, 2334,
       2335, 2336, 2337, 2338, 2339, 2340, 2341, 2342, 2343, 2344, 2345, 2346, 2347, 2348, 2349, 2350,
       2351, 2352, 2353, 2354, 2355, 2356, 2357, 2358, 2359, 2360, 2361, 2362, 2363, 2364, 2365, 2366,
       2367, 2368, 2369, 2370, 2371, 2372, 2373, 2374, 2375, 2376, 2377, 2378, 2379, 2380, 2381, 2382,
       2383, 2384, 2385, 2386, 2387, 2388, 2389, 2390, 2391, 2392, 2393, 2394, 2395, 2396, 2397, 2398,
       2399, 2400, 2401, 2402, 2403, 2404, 2405, 2406, 2407, 2408, 2409, 2410, 2411, 2412, 2413, 2414,
       2415, 2416, 2417, 2418, 2419, 2420, 2421, 2422, 2423, 2424, 2425, 2426, 2427, 2428, 2429, 2430,
       2431, 2432, 2433, 2434, 2435, 2436, 2437, 2438, 2439, 2440, 2441, 2442, 2443, 2444, 2445, 2446,
       2447, 2448, 2449, 2450, 2451, 2452, 2453, 2454, 2455, 2456, 2457, 2458, 2459, 2460, 2461, 2462,
       2463, 2464, 2465, 2466, 2467, 2468, 2469, 2470, 2471, 2472, 2473, 2474, 2475, 2476, 2477, 2478,
       2479, 2480, 2481, 2482, 2483, 2484, 2485, 2486, 2487, 2488, 2489, 2490, 2491, 2492, 2493, 2494,
       2495, 2496, 2497, 2498, 2499, 2500, 2501, 2502, 2503, 2504, 2505, 2506, 2507, 2508, 2509, 2510,
       2511, 2512, 2513, 2514, 2515, 2516, 2517, 2518, 2519, 2520, 2521, 2522, 2523, 2524, 2525, 2526,
       2527, 2528, 2529, 2530, 2531, 2532, 2533, 2534, 2535, 2536, 2537, 2538, 2539, 2540, 2541, 2542,
       2543, 2544, 2545, 2546, 2547, 2548, 2549, 2550, 2551, 2552, 2553, 2554, 2555, 2556, 2557, 2558,
       2559, 2560, 2561, 2562, 2563, 2564, 2565, 2566, 2567, 2568, 2569, 2570, 2571, 2572, 2573, 2574,
       2575, 2576, 2577, 2578, 2579, 2580, 2581, 2582, 2583, 2584, 2585, 2586, 2587, 2588, 2589, 2590,
       2591, 2592, 2593, 2594, 2595, 2596, 2597, 2598, 2599, 2600, 2601, 2602, 2603, 2604, 2605, 2606,
       2607, 2608, 2609, 2610, 2611, 2612, 2613, 2614, 2615, 2616, 2617, 2618, 2619, 2620, 2621, 2622,
       2623, 2624, 2625, 2626, 2627, 2628, 2629, 2630, 2631, 2632, 2633, 2634, 2635, 2636, 2637, 2638,
       2639, 2640, 2641, 2642, 2643, 2644, 2645, 2646, 2647, 2648, 2649, 2650, 2651, 2652, 2653, 2654,
       2655, 2656, 2657, 2658, 2659, 2660, 2661, 2662, 2663, 2664, 2665, 2666, 2667, 2668, 2669, 2670,
       2671, 2672, 2673, 2674, 2675, 2676, 2677, 2678, 2679, 2680, 2681, 2682, 2683, 2684, 2685, 2686,
       2687, 2688, 2689, 2690, 2691, 2692, 2693, 2694, 2695, 2696, 2697, 2698, 2699, 2700, 2701, 2702,
       2703, 2704, 2705, 2706, 2707, 2708, 2709, 2710, 2711, 2712, 2713, 2714, 2715, 2716, 2717, 2718,
       2719, 2720, 2721, 2722, 2723, 2724, 2725, 2726, 2727, 2728, 2729, 2730, 2731, 2732, 2733, 2734,
       2735, 2736, 2737, 2738, 2739, 2740, 2741, 2742, 2743, 2744, 2745, 2746, 2747, 2748, 2749, 2750,
       2751, 2752, 2753, 2754, 2755, 2756, 2757, 2758, 2759, 2760, 2761, 2762, 2763, 2764, 2765, 2766,
       2767, 2768, 2769, 2770, 2771, 2772, 2773, 2774, 2775, 2776, 2777, 2778, 2779, 2780, 2781, 2782,
       2783, 2784, 2785, 2786, 2787, 2788, 2789, 2790, 2791, 2792, 2793, 2794, 2795, 2796, 2797, 2798,
       2799, 2800, 2801, 2802, 2803, 2804, 2805, 2806, 2807, 2808, 2809, 2810, 2811, 2812, 2813, 2814,
       2815, 2816, 2817, 2818, 2819, 2820, 2821, 2822, 2823, 2824, 2825, 2826, 2827, 2828, 2829, 2830,
       2831, 2832, 2833, 2834, 2835, 2836, 2837, 2838, 2839, 2840, 2841, 2842, 2843, 2844, 2845, 2846,
       2847, 2848, 2849, 2850, 2851, 2852, 2853, 2854, 2855, 2856, 2857, 2858, 2859, 2860, 2861, 2862,
       2863, 2864, 2865, 2866, 2867, 2868, 2869, 2870, 2871, 2872, 2873, 2874, 2875, 2876, 2877, 2878,
       2879, 2880, 2881, 2882, 2883, 2884, 2885, 2886, 2887, 2888, 2889, 2890, 2891, 2892, 2893, 2894,
       2895, 2896, 2897, 2898, 2899, 2900, 2901, 2902, 2903, 2904, 2905, 2906, 2907, 2908, 2909, 2910,
       2911, 2912, 2913, 2914, 2915, 2916, 2917, 2918, 2919, 2920, 2921, 2922, 2923, 2924, 2925, 2926,
       2927, 2928, 2929, 2930, 2931, 2932, 2933, 2934, 2935, 2936, 2937, 2938, 2939, 2940, 2941, 2942,
       2943, 2944, 2945, 2946, 2947, 2948, 2949, 2950, 2951, 2952, 2953, 2954, 2955, 2956, 2957, 2958,
       2959, 2960, 2961, 2962, 2963, 2964, 2965, 2966, 2967, 2968, 2969, 2970, 2971, 2972, 2973, 2974,
       2975, 2976, 2977, 2978, 2979, 2980, 2981, 2982, 2983, 2984, 2985, 2986, 2987, 2988, 2989, 2990,
       2991, 2992, 2993, 2994, 2995, 2996, 2997, 2998, 2999, 3000, 3001, 3002, 3003, 3004, 3005, 3006,
       3007, 3008, 3009, 3010, 3011, 3012, 3013, 3014, 3015, 3016, 3017, 3018, 3019, 3020, 3021, 3022,
       3023, 3024, 3025, 3026, 3027, 3028, 3029, 3030, 3031, 3032, 3033, 3034, 3035, 3036, 3037, 3038,
       3039, 3040, 3041, 3042, 3043, 3044, 3045, 3046, 3047, 3048, 3049, 3050, 3051, 3052, 3053, 3054,
       3055, 3056, 3057, 3058, 3059, 3060, 3061, 3062, 3063, 3064, 3065, 3066, 3067, 3068, 3069, 3070,
       3071, 3072, 3073, 3074, 3075, 3076, 3077, 3078, 3079, 3080, 3081, 3082, 3083, 3084, 3085, 3086,
       3087, 3088, 3089, 3090, 3091, 3092, 3093, 3094, 3095, 3096, 3097, 3098, 3099, 3100, 3101, 3102,
       3103, 3104, 3105, 3106, 3107, 3108, 3109, 3110, 3111, 3112, 3113, 3114, 3115, 3116, 3117, 3118,
       3119, 3120, 3121, 3122, 3123, 3124, 3125, 3126, 3127, 3128, 3129, 3130, 3131, 3132, 3133, 3134,
       3135, 3136, 3137, 3138, 3139, 3140, 3141, 3142, 3143, 3144, 3145, 3146, 3147, 3148, 3149, 3150,
       3151, 3152, 3153, 3154, 3155, 3156, 3157, 3158, 3159, 3160, 3161, 3162, 3163, 3164, 3165, 3166,
       3167, 3168, 3169, 3170, 3171, 3172, 3173, 3174, 3175, 3176, 3177, 3178, 3179, 3180, 3181, 3182,
       3183, 3184, 3185, 3186, 3187, 3188, 3189, 3190, 3191, 3192, 3193, 3194, 3195, 3196, 3197, 3198,
       3199, 3200, 3201, 3202, 3203, 3204, 3205, 3206, 3207, 3208, 3209, 3210, 3211, 3212, 3213, 3214,
       3215, 3216, 3217, 3218, 3219, 3220, 3221, 3222, 3223, 3224, 3225, 3226, 3227, 3228, 3229, 3230,
       3231, 3232, 3233, 3234, 3235, 3236, 3237, 3238, 3239, 3240, 3241, 3242, 3243, 3244, 3245, 3246,
       3247, 3248, 3249, 3250, 3251, 3252, 3253, 3254, 3255, 3256, 3257, 3258, 3259, 3260, 3261, 3262,
       3263, 3264, 3265, 3266, 3267, 3268, 3269, 3270, 3271, 3272, 3273, 3274, 3275, 3276, 3277, 3278,
       3279, 3280, 3281, 3282, 3283, 3284, 3285, 3286, 3287, 3288, 3289, 3290, 3291, 3292, 3293, 3294,
       3295, 3296, 3297, 3298, 3299, 3300, 3301, 3302, 3303, 3304, 3305, 3306, 3307, 3308, 3309, 3310,
       3311, 3312, 3313, 3314, 3315, 3316, 3317, 3318, 3319, 3320, 3321, 3322, 3323, 3324, 3325, 3326,
       3327, 3328, 3329, 3330, 3331, 3332, 3333, 3334, 3335, 3336, 3337, 3338, 3339, 3340, 3341, 3342,
       3343, 3344, 3345, 3346, 3347, 3348, 3349, 3350, 3351, 3352, 3353, 3354, 3355, 3356, 3357, 3358,
       3359, 3360, 3361, 3362, 3363, 3364, 3365, 3366, 3367, 3368, 3369, 3370, 3371, 3372, 3373, 3374,
       3375, 3376, 3377, 3378, 3379, 3380, 3381, 3382, 3383, 3384, 3385, 3386, 3387, 3388, 3389, 3390,
       3391, 3392, 3393, 3394, 3395, 3396, 3397, 3398, 3399, 3400, 3401, 3402, 3403, 3404, 3405, 3406,
       3407, 3408, 3409, 3410, 3411, 3412, 3413, 3414, 3415, 3416, 3417, 3418, 3419, 3420, 3421, 3422,
       3423, 3424, 3425, 3426, 3427, 3428, 3429, 3430, 3431, 3432, 3433, 3434, 3435, 3436, 3437, 3438,
       3439, 3440, 3441, 3442, 3443, 3444, 3445, 3446, 3447, 3448, 3449, 3450, 3451, 3452, 3453, 3454,
       3455, 3456, 3457, 3458, 3459, 3460, 3461, 3462, 3463, 3464, 3465, 3466, 3467, 3468, 3469, 3470,
       3471, 3472, 3473, 3474, 3475, 3476, 3477, 3478, 3479, 3480, 3481, 3482, 3483, 3484, 3485, 3486,
       3487, 3488, 3489, 3490, 3491, 3492, 3493, 3494, 3495, 3496, 3497, 3498, 3499, 3500, 3501, 3502,
       3503, 3504, 3505, 3506, 3507, 3508, 3509, 3510, 3511, 3512, 3513, 3514, 3515, 3516, 3517, 3518,
       3519, 3520, 3521, 3522, 3523, 3524, 3525, 3526, 3527, 3528, 3529, 3530, 3531, 3532, 3533, 3534,
       3535, 3536, 3537, 3538, 3539, 3540, 3541, 3542, 3543, 3544, 3545, 3546, 3547, 3548, 3549, 3550,
       3551, 3552, 3553, 3554, 3555, 3556, 3557, 3558, 3559, 3560, 3561, 3562, 3563, 3564, 3565, 3566,
       3567, 3568, 3569, 3570, 3571, 3572, 3573, 3574, 3575, 3576, 3577, 3578, 3579, 3580, 3581, 3582,
       3583, 3584, 3585, 3586, 3587, 3588, 3589, 3590, 3591, 3592, 3593, 3594, 3595, 3596, 3597, 3598,
       3599, 3600, 3601, 3602, 3603, 3604, 3605, 3606, 3607, 3608, 3609, 3610, 3611, 3612, 3613, 3614,
       3615, 3616, 3617, 3618, 3619, 3620, 3621, 3622, 3623, 3624, 3625, 3626, 3627, 3628, 3629, 3630,
       3631, 3632, 3633, 3634, 3635, 3636, 3637, 3638, 3639, 3640, 3641, 3642, 3643, 3644, 3645, 3646,
       3647, 3648, 3649, 3650, 3651, 3652, 3653, 3654, 3655, 3656, 3657, 3658, 3659, 3660, 3661, 3662,
       3663, 3664, 3665, 3666, 3667, 3668, 3669, 3670, 3671, 3672, 3673, 3674, 3675, 3676, 3677, 3678,
       3679, 3680, 3681, 3682, 3683, 3684, 3685, 3686, 3687, 3688, 3689, 3690, 3691, 3692, 3693, 3694,
       3695, 3696, 3697, 3698, 3699, 3700, 3701, 3702, 3703, 3704, 3705, 3706, 3707, 3708, 3709, 3710,
       3711, 3712, 3713, 3714, 3715, 3716, 3717, 3718, 3719, 3720, 3721, 3722, 3723, 3724, 3725, 3726,
       3727, 3728, 3729, 3730, 3731, 3732, 3733, 3734, 3735, 3736, 3737, 3738, 3739, 3740, 3741, 3742,
       3743, 3744, 3745, 3746, 3747, 3748, 3749, 3750, 3751, 3752, 3753, 3754, 3755, 3756, 3757, 3758,
       3759, 3760, 3761, 3762, 3763, 3764, 3765, 3766, 3767, 3768, 3769, 3770, 3771, 3772, 3773, 3774,
       3775, 3776, 3777, 3778, 3779, 3780, 3781, 3782, 3783, 3784, 3785, 3786, 3787, 3788, 3789, 3790,
       3791, 3792, 3793, 3794, 3795, 3796, 3797, 3798, 3799, 3800, 3801, 3802, 3803, 3804, 3805, 3806,
       3807, 3808, 3809, 3810, 3811, 3812, 3813, 3814, 3815, 3816, 3817, 3818, 3819, 3820, 3821, 3822,
       3823, 3824, 3825, 3826, 3827, 3828, 3829, 3830, 3831, 3832, 3833, 3834, 3835, 3836, 3837, 3838,
       3839, 3840, 3841, 3842, 3843, 3844, 3845, 3846, 3847, 3848, 3849, 3850, 3851, 3852, 3853, 3854,
       3855, 3856, 3857, 3858, 3859, 3860, 3861, 3862, 3863, 3864, 3865, 3866, 3867, 3868, 3869, 3870,
       3871, 3872, 3873, 3874, 3875, 3876, 3877, 3878, 3879, 3880, 3881, 3882, 3883, 3884, 3885, 3886,
       3887, 3888, 3889, 3890, 3891, 3892, 3893, 3894, 3895, 3896, 3897, 3898, 3899, 3900, 3901, 3902,
       3903, 3904, 3905, 3906, 3907, 3908, 3909, 3910, 3911, 3912, 3913, 3914, 3915, 3916, 3917, 3918,
       3919, 3920, 3921, 3922, 3923, 3924, 3925, 3926, 3927, 3928, 3929, 3930, 3931, 3932, 3933, 3934,
       3935, 3936, 3937, 3938, 3939, 3940, 3941, 3942, 3943, 3944, 3945, 3946, 3947, 3948, 3949, 3950,
       3951, 3952, 3953, 3954, 3955, 3956, 3957, 3958, 3959, 3960, 3961, 3962, 3963, 3964, 3965, 3966,
       3967, 3968, 3969, 3970, 3971, 3972, 3973, 3974, 3975, 3976, 3977, 3978, 3979, 3980, 3981, 3982,
       3983, 3984, 3985, 3986, 3987, 3988, 3989, 3990, 3991, 3992, 3993, 3994, 3995, 3996, 3997, 3998,
       3999, 4000, 4001, 4002, 4003, 4004, 4005, 4006, 4007, 4008, 4009, 4010, 4011, 4012, 4013, 4014,
       4015, 4016, 4017, 4018, 4019, 4020, 4021, 4022, 4023, 4024, 4025, 4026, 4027, 4028, 4029, 4030,
       4031, 4032, 4033, 4034, 4035, 4036, 4037, 4038, 4039, 4040, 4041, 4042, 4043, 4044, 4045, 4046,
       4047, 4048, 4049, 4050, 4051, 4052, 4053, 4054, 4055, 4056, 4057, 4058, 4059, 4060, 4061, 4062,
       4063, 4064, 4065, 4066, 4067, 4068, 4069, 4070, 4071, 4072, 4073, 4074, 4075, 4076, 4077, 4078,
       4079, 4080, 4081, 4082, 4083, 4084, 4085, 4086, 4087, 4088, 4089, 4090, 4091, 4092, 4093, 4094,
       4095, 4096, 4097, 4098, 4099, 4100, 4101, 4102, 4103, 4104, 4105, 4106, 4107, 4108, 4109, 4110,
       4111, 4112, 4113, 4114, 4115, 4116, 4117, 4118, 4119, 4120, 4121, 4122, 4123, 4124, 4125, 4126,
       4127, 4128, 4129, 4130, 4131, 4132, 4133, 4134, 4135, 4136, 4137, 4138, 4139, 4140, 4141, 4142,
       4143, 4144, 4145, 4146, 4147, 4148, 4149, 4150, 4151, 4152, 4153, 4154, 4155, 4156, 4157, 4158,
       4159, 4160, 4161, 4162, 4163, 4164, 4165, 4166, 4167, 4168, 4169, 4170, 4171, 4172, 4173, 4174,
       4175, 4176, 4177, 4178, 4179, 4180, 4181, 4182, 4183, 4184, 4185, 4186, 4187, 4188, 4189, 4190,
       4191, 4192, 4193, 4194, 4195, 4196, 4197, 4198, 4199, 4200, 4201, 4202, 4203, 4204, 4205, 4206,
       4207, 4208, 4209, 4210, 4211, 4212, 4213, 4214, 4215, 4216, 4217, 4218, 4219, 4220, 4221, 4222,
       4223, 4224, 4225, 4226, 4227, 4228, 4229, 4230, 4231, 4232, 4233, 4234, 4235, 4236, 4237, 4238,
       4239, 4240, 4241, 4242, 4243, 4244, 4245, 4246, 4247, 4248, 4249, 4250, 4251, 4252, 4253, 4254,
       4255, 4256, 4257, 4258, 4259, 4260, 4261, 4262, 4263, 4264, 4265, 4266, 4267, 4268, 4269, 4270,
       4271, 4272, 4273, 4274, 4275, 4276, 4277, 4278, 4279, 4280, 4281, 4282, 4283, 4284, 4285, 4286,
       4287, 4288, 4289, 4290, 4291, 4292, 4293, 4294, 4295, 4296, 4297, 4298, 4299, 4300, 4301, 4302,
       4303, 4304, 4305, 4306, 4307, 4308, 4309, 4310, 4311, 4312, 4313, 4314, 4315, 4316, 4317, 4318,
       4319, 4320, 4321, 4322, 4323, 4324, 4325, 4326, 4327, 4328, 4329, 4330, 4331, 4332, 4333, 4334,
       4335, 4336, 4337, 4338, 4339, 4340, 4341, 4342, 4343, 4344, 4345, 4346, 4347, 4348, 4349, 4350,
       4351, 4352, 4353, 4354, 4355, 4356, 4357, 4358, 4359, 4360, 4361, 4362, 4363, 4364, 4365, 4366,
       4367, 4368, 4369, 4370, 4371, 4372, 4373, 4374, 4375, 4376, 4377, 4378, 4379, 4380, 4381, 4382,
       4383, 4384, 4385, 4386, 4387, 4388, 4389, 4390, 4391, 4392, 4393, 4394, 4395, 4396, 4397, 4398,
       4399, 4400, 4401, 4402, 4403, 4404, 4405, 4406, 4407, 4408, 4409, 4410, 4411, 4412, 4413, 4414,
       4415, 4416, 4417, 4418, 4419, 4420, 4421, 4422, 4423, 4424, 4425, 4426, 4427, 4428, 4429, 4430,
       4431, 4432, 4433, 4434, 4435, 4436, 4437, 4438, 4439, 4440, 4441, 4442, 4443, 4444, 4445, 4446,
       4447, 4448, 4449, 4450, 4451, 4452, 4453, 4454, 4455, 4456, 4457, 4458, 4459, 4460, 4461, 4462,
       4463, 4464, 4465, 4466, 4467, 4468, 4469, 4470, 4471, 4472, 4473, 4474, 4475, 4476, 4477, 4478,
       4479, 4480, 4481, 4482, 4483, 4484, 4485, 4486, 4487, 4488, 4489, 4490, 4491, 4492, 4493, 4494,
       4495, 4496, 4497, 4498, 4499, 4500, 4501, 4502, 4503, 4504, 4505, 4506, 4507, 4508, 4509, 4510,
       4511, 4512, 4513, 4514, 4515, 4516, 4517, 4518, 4519, 4520, 4521, 4522, 4523, 4524, 4525, 4526,
       4527, 4528, 4529, 4530, 4531, 4532, 4533, 4534, 4535, 4536, 4537, 4538, 4539, 4540, 4541, 4542,
       4543, 4544, 4545, 4546, 4547, 4548, 4549, 4550, 4551, 4552, 4553, 4554, 4555, 4556, 4557, 4558,
       4559, 4560, 4561, 4562, 4563, 4564, 4565, 4566, 4567, 4568, 4569, 4570, 4571, 4572, 4573, 4574,
       4575, 4576, 4577, 4578, 4579, 4580, 4581, 4582, 4583, 4584, 4585, 4586, 4587, 4588, 4589, 4590,
       4591, 4592, 4593, 4594, 4595, 4596, 4597, 4598, 4599, 4600, 4601, 4602, 4603, 4604, 4605, 4606,
       4607, 4608, 4609, 4610, 4611, 4612, 4613, 4614, 4615, 4616, 4617, 4618, 4619, 4620, 4621, 4622,
       4623, 4624, 4625, 4626, 4627, 4628, 4629, 4630, 4631, 4632, 4633, 4634, 4635, 4636, 4637, 4638,
       4639, 4640, 4641, 4642, 4643, 4644, 4645, 4646, 4647, 4648, 4649, 4650, 4651, 4652, 4653, 4654,
       4655, 4656, 4657, 4658, 4659, 4660, 4661, 4662, 4663, 4664, 4665, 4666, 4667, 4668, 4669, 4670,
       4671, 4672, 4673, 4674, 4675, 4676, 4677, 4678, 4679, 4680, 4681, 4682, 4683, 4684, 4685, 4686,
       4687, 4688, 4689, 4690, 4691, 4692, 4693, 4694, 4695, 4696, 4697, 4698, 4699, 4700, 4701, 4702,
       4703, 4704, 4705, 4706, 4707, 4708, 4709, 4710, 4711, 4712, 4713, 4714, 4715, 4716, 4717, 4718,
       4719, 4720, 4721, 4722, 4723, 4724, 4725, 4726, 4727, 4728, 4729, 4730, 4731, 4732, 4733, 4734,
       4735, 4736, 4737, 4738, 4739, 4740, 4741, 4742, 4743, 4744, 4745, 4746, 4747, 4748, 4749, 4750,
       4751, 4752, 4753, 4754, 4755, 4756, 4757, 4758, 4759, 4760, 4761, 4762, 4763, 4764, 4765, 4766,
       4767, 4768, 4769, 4770, 4771, 4772, 4773, 4774, 4775, 4776, 4777, 4778, 4779, 4780, 4781, 4782,
       4783, 4784, 4785, 4786, 4787, 4788, 4789, 4790, 4791, 4792, 4793, 4794, 4795, 4796, 4797, 4798,
       4799, 4800, 4801, 4802, 4803, 4804, 4805, 4806, 4807, 4808, 4809, 4810, 4811, 4812, 4813, 4814,
       4815, 4816, 4817, 4818, 4819, 4820, 4821, 4822, 4823, 4824, 4825, 4826, 4827, 4828, 4829, 4830,
       4831, 4832, 4833, 4834, 4835, 4836, 4837, 4838, 4839, 4840, 4841, 4842, 4843, 4844, 4845, 4846,
       4847, 4848, 4849, 4850, 4851, 4852, 4853, 4854, 4855, 4856, 4857, 4858, 4859, 4860, 4861, 4862,
       4863, 4864, 4865, 4866, 4867, 4868, 4869, 4870, 4871, 4872, 4873, 4874, 4875, 4876, 4877, 4878,
       4879, 4880, 4881, 4882, 4883, 4884, 4885, 4886, 4887, 4888, 4889, 4890, 4891, 4892, 4893, 4894,
       4895, 4896, 4897, 4898, 4899, 4900, 4901, 4902, 4903, 4904, 4905, 4906, 4907, 4908, 4909, 4910,
       4911, 4912, 4913, 4914, 4915, 4916, 4917, 4918, 4919, 4920, 4921, 4922, 4923, 4924, 4925, 4926,
       4927, 4928, 4929, 4930, 4931, 4932, 4933, 4934, 4935, 4936, 4937, 4938, 4939, 4940, 4941, 4942,
       4943, 4944, 4945, 4946, 4947, 4948, 4949, 4950, 4951, 4952, 4953, 4954, 4955, 4956, 4957, 4958,
       4959, 4960, 4961, 4962, 4963, 4964, 4965, 4966, 4967, 4968, 4969, 4970, 4971, 4972, 4973, 4974,
       4975, 4976, 4977, 4978, 4979, 4980, 4981, 4982, 4983, 4984, 4985, 4986, 4987, 4988, 4989, 4990,
       4991, 4992, 4993, 4994, 4995, 4996, 4997, 4998, 4999, 5000, 5001, 5002, 5003, 5004, 5005, 5006,
       5007, 5008, 5009, 5010, 5011, 5012, 5013, 5014, 5015, 5016, 5017, 5018, 5019, 5020, 5021, 5022,
       5023, 5024, 5025, 5026, 5027, 5028, 5029, 5030, 5031, 5032, 5033, 5034, 5035, 5036, 5037, 5038,
       5039, 5040, 5041, 5042, 5043, 5044, 5045, 5046, 5047, 5048, 5049, 5050, 5051, 5052, 5053, 5054,
       5055, 5056, 5057, 5058, 5059, 5060, 5061, 5062, 5063, 5064, 5065, 5066, 5067, 5068, 5069, 5070,
       5071, 5072, 5073, 5074, 5075, 5076, 5077, 5078, 5079, 5080, 5081, 5082, 5083, 5084, 5085, 5086,
       5087, 5088, 5089, 5090, 5091, 5092, 5093, 5094, 5095, 5096, 5097, 5098, 5099, 5100, 5101, 5102,
       5103, 5104, 5105, 5106, 5107, 5108, 5109, 5110, 5111, 5112, 5113, 5114, 5115, 5116, 5117, 5118,
       5119, 5120, 5121, 5122, 5123, 5124, 5125, 5126, 5127, 5128, 5129, 5130, 5131, 5132, 5133, 5134,
       5135, 5136, 5137, 5138, 5139, 5140, 5141, 5142, 5143, 5144, 5145, 5146, 5147, 5148, 5149, 5150,
       5151, 5152, 5153, 5154, 5155, 5156, 5157, 5158, 5159, 5160, 5161, 5162, 5163, 5164, 5165, 5166,
       5167, 5168, 5169, 5170, 5171, 5172, 5173, 5174, 5175, 5176, 5177, 5178, 5179, 5180, 5181, 5182,
       5183, 5184, 5185, 5186, 5187, 5188, 5189, 5190, 5191, 5192, 5193, 5194, 5195, 5196, 5197, 5198,
       5199, 5200, 5201, 5202, 5203, 5204, 5205, 5206, 5207, 5208, 5209, 5210, 5211, 5212, 5213, 5214,
       5215, 5216, 5217, 5218, 5219, 5220, 5221, 5222, 5223, 5224, 5225, 5226, 5227, 5228, 5229, 5230,
       5231, 5232, 5233, 5234, 5235, 5236, 5237, 5238, 5239, 5240, 5241, 5242, 5243, 5244, 5245, 5246,
       5247, 5248, 5249, 5250, 5251, 5252, 5253, 5254, 5255, 5256, 5257, 5258, 5259, 5260, 5261, 5262,
       5263, 5264, 5265, 5266, 5267, 5268, 5269, 5270, 5271, 5272, 5273, 5274, 5275, 5276, 5277, 5278,
       5279, 5280, 5281, 5282, 5283, 5284, 5285, 5286, 5287, 5288, 5289, 5290, 5291, 5292, 5293, 5294,
       5295, 5296, 5297, 5298, 5299, 5300, 5301, 5302, 5303, 5304, 5305, 5306, 5307, 5308, 5309, 5310,
       5311, 5312, 5313, 5314, 5315, 5316, 5317, 5318, 5319, 5320, 5321, 5322, 5323, 5324, 5325, 5326,
       5327, 5328, 5329, 5330, 5331, 5332, 5333, 5334, 5335, 5336, 5337, 5338, 5339, 5340, 5341, 5342,
       5343, 5344, 5345, 5346, 5347, 5348, 5349, 5350, 5351, 5352, 5353, 5354, 5355, 5356, 5357, 5358,
       5359, 5360, 5361, 5362, 5363, 5364, 5365, 5366, 5367, 5368, 5369, 5370, 5371, 5372, 5373, 5374,
       5375, 5376, 5377, 5378, 5379, 5380, 5381, 5382, 5383, 5384, 5385, 5386, 5387, 5388, 5389, 5390,
       5391, 5392, 5393, 5394, 5395, 5396, 5397, 5398, 5399, 5400, 5401, 5402, 5403, 5404, 5405, 5406,
       5407, 5408, 5409, 5410, 5411, 5412, 5413, 5414, 5415, 5416, 5417, 5418, 5419, 5420, 5421, 5422,
       5423, 5424, 5425, 5426, 5427, 5428, 5429, 5430, 5431, 5432, 5433, 5434, 5435, 5436, 5437, 5438,
       5439, 5440, 5441, 5442, 5443, 5444, 5445, 5446, 5447, 5448, 5449, 5450, 5451, 5452, 5453, 5454,
       5455, 5456, 5457, 5458, 5459, 5460, 5461, 5462, 5463, 5464, 5465, 5466, 5467, 5468, 5469, 5470,
       5471, 5472, 5473, 5474, 5475, 5476, 5477, 5478, 5479, 5480, 5481, 5482, 5483, 5484, 5485, 5486,
       5487, 5488, 5489, 5490, 5491, 5492, 5493, 5494, 5495, 5496, 5497, 5498, 5499, 5500, 5501, 5502,
       5503, 5504, 5505, 5506, 5507, 5508, 5509, 5510, 5511, 5512, 5513, 5514, 5515, 5516, 5517, 5518,
       5519, 5520, 5521, 5522, 5523, 5524, 5525, 5526, 5527, 5528, 5529, 5530, 5531, 5532, 5533, 5534,
       5535, 5536, 5537, 5538, 5539, 5540, 5541, 5542, 5543, 5544, 5545, 5546, 5547, 5548, 5549, 5550,
       5551, 5552, 5553, 5554, 5555, 5556, 5557, 5558, 5559, 5560, 5561, 5562, 5563, 5564, 5565, 5566,
       5567, 5568, 5569, 5570, 5571, 5572, 5573, 5574, 5575, 5576, 5577, 5578, 5579, 5580, 5581, 5582,
       5583, 5584, 5585, 5586, 5587, 5588, 5589, 5590, 5591, 5592, 5593, 5594, 5595, 5596, 5597, 5598,
       5599, 5600, 5601, 5602, 5603, 5604, 5605, 5606, 5607, 5608, 5609, 5610, 5611, 5612, 5613, 5614,
       5615, 5616, 5617, 5618, 5619, 5620, 5621, 5622, 5623, 5624, 5625, 5626, 5627, 5628, 5629, 5630,
       5631, 5632, 5633, 5634, 5635, 5636, 5637, 5638, 5639, 5640, 5641, 5642, 5643, 5644, 5645, 5646,
       5647, 5648, 5649, 5650, 5651, 5652, 5653, 5654, 5655, 5656, 5657, 5658, 5659, 5660, 5661, 5662,
       5663, 5664, 5665, 5666, 5667, 5668, 5669, 5670, 5671, 5672, 5673, 5674, 5675, 5676, 5677, 5678,
       5679, 5680, 5681, 5682, 5683, 5684, 5685, 5686, 5687, 5688, 5689, 5690, 5691, 5692, 5693, 5694,
       5695, 5696, 5697, 5698, 5699, 5700, 5701, 5702, 5703, 5704, 5705, 5706, 5707, 5708, 5709, 5710,
       5711, 5712, 5713, 5714, 5715, 5716, 5717, 5718, 5719, 5720, 5721, 5722, 5723, 5724, 5725, 5726,
       5727, 5728, 5729, 5730, 5731, 5732, 5733, 5734, 5735, 5736, 5737, 5738, 5739, 5740, 5741, 5742,
       5743, 5744, 5745, 5746, 5747, 5748, 5749, 5750, 5751, 5752, 5753, 5754, 5755, 5756, 5757, 5758,
       5759, 5760, 5761, 5762, 5763, 5764, 5765, 5766, 5767, 5768, 5769, 5770, 5771, 5772, 5773, 5774,
       5775, 5776, 5777, 5778, 5779, 5780, 5781, 5782, 5783, 5784, 5785, 5786, 5787, 5788, 5789, 5790,
       5791, 5792, 5793, 5794, 5795, 5796, 5797, 5798, 5799, 5800, 5801, 5802, 5803, 5804, 5805, 5806,
       5807, 5808, 5809, 5810, 5811, 5812, 5813, 5814, 5815, 5816, 5817, 5818, 5819, 5820, 5821, 5822,
       5823, 5824, 5825, 5826, 5827, 5828, 5829, 5830, 5831, 5832, 5833, 5834, 5835, 5836, 5837, 5838,
       5839, 5840, 5841, 5842, 5843, 5844, 5845, 5846, 5847, 5848, 5849, 5850, 5851, 5852, 5853, 5854,
       5855, 5856, 5857, 5858, 5859, 5860, 5861, 5862, 5863, 5864, 5865, 5866, 5867, 5868, 5869, 5870,
       5871, 5872, 5873, 5874, 5875, 5876, 5877, 5878, 5879, 5880, 5881, 5882, 5883, 5884, 5885, 5886,
       5887, 5888, 5889, 5890, 5891, 5892, 5893, 5894, 5895, 5896, 5897, 5898, 5899, 5900, 5901, 5902,
       5903, 5904, 5905, 5906, 5907, 5908, 5909, 5910, 5911, 5912, 5913, 5914, 5915, 5916, 5917, 5918,
       5919, 5920, 5921, 5922, 5923, 5924, 5925, 5926, 5927, 5928, 5929, 5930, 5931, 5932, 5933, 5934,
       5935, 5936, 5937, 5938, 5939, 5940, 5941, 5942, 5943, 5944, 5945, 5946, 5947, 5948, 5949, 5950,
       5951, 5952, 5953, 5954, 5955, 5956, 5957, 5958, 5959, 5960, 5961, 5962, 5963, 5964, 5965, 5966,
       5967, 5968, 5969, 5970, 5971, 5972, 5973, 5974, 5975, 5976, 5977, 5978, 5979, 5980, 5981, 5982,
       5983, 5984, 5985, 5986, 5987, 5988, 5989, 5990, 5991, 5992, 5993, 5994, 5995, 5996, 5997, 5998,
       5999, 6000, 6001, 6002, 6003, 6004, 6005, 6006, 6007, 6008, 6009, 6010, 6011, 6012, 6013, 6014,
       6015, 6016, 6017, 6018, 6019, 6020, 6021, 6022, 6023, 6024, 6025, 6026, 6027, 6028, 6029, 6030,
       6031, 6032, 6033, 6034, 6035, 6036, 6037, 6038, 6039, 6040, 6041, 6042, 6043, 6044, 6045, 6046,
       6047, 6048, 6049, 6050, 6051, 6052, 6053, 6054, 6055, 6056, 6057, 6058, 6059, 6060, 6061, 6062,
       6063, 6064, 6065, 6066, 6067, 6068, 6069, 6070, 6071, 6072, 6073, 6074, 6075, 6076, 6077, 6078,
       6079, 6080, 6081, 6082, 6083, 6084, 6085, 6086, 6087, 6088, 6089, 6090, 6091, 6092, 6093, 6094,
       6095, 6096, 6097, 6098, 6099, 6100, 6101, 6102, 6103, 6104, 6105, 6106, 6107, 6108, 6109, 6110,
       6111, 6112, 6113, 6114, 6115, 6116, 6117, 6118, 6119, 6120, 6121, 6122, 6123, 6124, 6125, 6126,
       6127, 6128, 6129, 6130, 6131, 6132, 6133, 6134, 6135, 6136, 6137, 6138, 6139, 6140, 6141, 6142,
       6143, 6144, 6145, 6146, 6147, 6148, 6149, 6150, 6151, 6152, 6153, 6154, 6155, 6156, 6157, 6158,
       6159, 6160, 6161, 6162, 6163, 6164, 6165, 6166, 6167, 6168, 6169, 6170, 6171, 6172, 6173, 6174,
       6175, 6176, 6177, 6178, 6179, 6180, 6181, 6182, 6183, 6184, 6185, 6186, 6187, 6188, 6189, 6190,
       6191, 6192, 6193, 6194, 6195, 6196, 6197, 6198, 6199, 6200, 6201, 6202, 6203, 6204, 6205, 6206,
       6207, 6208, 6209, 6210, 6211, 6212, 6213, 6214, 6215, 6216, 6217, 6218, 6219, 6220, 6221, 6222,
       6223, 6224, 6225, 6226, 6227, 6228, 6229, 6230, 6231, 6232, 6233, 6234, 6235, 6236, 6237, 6238,
       6239, 6240, 6241, 6242, 6243, 6244, 6245, 6246, 6247, 6248, 6249, 6250, 6251, 6252, 6253, 6254,
       6255, 6256, 6257, 6258, 6259, 6260, 6261, 6262, 6263, 6264, 6265, 6266, 6267, 6268, 6269, 6270,
       6271, 6272, 6273, 6274, 6275, 6276, 6277, 6278, 6279, 6280, 6281, 6282, 6283, 6284, 6285, 6286,
       6287, 6288, 6289, 6290, 6291, 6292, 6293, 6294, 6295, 6296, 6297, 6298, 6299, 6300, 6301, 6302,
       6303, 6304, 6305, 6306, 6307, 6308, 6309, 6310, 6311, 6312, 6313, 6314, 6315, 6316, 6317, 6318,
       6319, 6320, 6321, 6322, 6323, 6324, 6325, 6326, 6327, 6328, 6329, 6330, 6331, 6332, 6333, 6334,
       6335, 6336, 6337, 6338, 6339, 6340, 6341, 6342, 6343, 6344, 6345, 6346, 6347, 6348, 6349, 6350,
       6351, 6352, 6353, 6354, 6355, 6356, 6357, 6358, 6359, 6360, 6361, 6362, 6363, 6364, 6365, 6366,
       6367, 6368, 6369, 6370, 6371, 6372, 6373, 6374, 6375, 6376, 6377, 6378, 6379, 6380, 6381, 6382,
       6383, 6384, 6385, 6386, 6387, 6388, 6389, 6390, 6391, 6392, 6393, 6394, 6395, 6396, 6397, 6398,
       6399, 6400, 6401, 6402, 6403, 6404, 6405, 6406, 6407, 6408, 6409, 6410, 6411, 6412, 6413, 6414,
       6415, 6416, 6417, 6418, 6419, 6420, 6421, 6422, 6423, 6424, 6425, 6426, 6427, 6428, 6429, 6430,
       6431, 6432, 6433, 6434, 6435, 6436, 6437, 6438, 6439, 6440, 6441, 6442, 6443, 6444, 6445, 6446,
       6447, 6448, 6449, 6450, 6451, 6452, 6453, 6454, 6455, 6456, 6457, 6458, 6459, 6460, 6461, 6462,
       6463, 6464, 6465, 6466, 6467, 6468, 6469, 6470, 6471, 6472, 6473, 6474, 6475, 6476, 6477, 6478,
       6479, 6480, 6481, 6482, 6483, 6484, 6485, 6486, 6487, 6488, 6489, 6490, 6491, 6492, 6493, 6494,
       6495, 6496, 6497, 6498, 6499, 6500, 6501, 6502, 6503, 6504, 6505, 6506, 6507, 6508, 6509, 6510,
       6511, 6512, 6513, 6514, 6515, 6516, 6517, 6518, 6519, 6520, 6521, 6522, 6523, 6524, 6525, 6526,
       6527, 6528, 6529, 6530, 6531, 6532, 6533, 6534, 6535, 6536, 6537, 6538, 6539, 6540, 6541, 6542,
       6543, 6544, 6545, 6546, 6547, 6548, 6549, 6550, 6551, 6552, 6553, 6554, 6555, 6556, 6557, 6558,
       6559, 6560, 6561, 6562, 6563, 6564, 6565, 6566, 6567, 6568, 6569, 6570, 6571, 6572, 6573, 6574,
       6575, 6576, 6577, 6578, 6579, 6580, 6581, 6582, 6583, 6584, 6585, 6586, 6587, 6588, 6589, 6590,
       6591, 6592, 6593, 6594, 6595, 6596, 6597, 6598, 6599, 6600, 6601, 6602, 6603, 6604, 6605, 6606,
       6607, 6608, 6609, 6610, 6611, 6612, 6613, 6614, 6615, 6616, 6617, 6618, 6619, 6620, 6621, 6622,
       6623, 6624, 6625, 6626, 6627, 6628, 6629, 6630, 6631, 6632, 6633, 6634, 6635, 6636, 6637, 6638,
       6639, 6640, 6641, 6642, 6643, 6644, 6645, 6646, 6647, 6648, 6649, 6650, 6651, 6652, 6653, 6654,
       6655, 6656, 6657, 6658, 6659, 6660, 6661, 6662, 6663, 6664, 6665, 6666, 6667, 6668, 6669, 6670,
       6671, 6672, 6673, 6674, 6675, 6676, 6677, 6678, 6679, 6680, 6681, 6682, 6683, 6684, 6685, 6686,
       6687, 6688, 6689, 6690, 6691, 6692, 6693, 6694, 6695, 6696, 6697, 6698, 6699, 6700, 6701, 6702,
       6703, 6704, 6705, 6706, 6707, 6708, 6709, 6710, 6711, 6712, 6713, 6714, 6715, 6716, 6717, 6718,
       6719, 6720, 6721, 6722, 6723, 6724, 6725, 6726, 6727, 6728, 6729, 6730, 6731, 6732, 6733, 6734,
       6735, 6736, 6737, 6738, 6739, 6740, 6741, 6742, 6743, 6744, 6745, 6746, 6747, 6748, 6749, 6750,
       6751, 6752, 6753, 6754, 6755, 6756, 6757, 6758, 6759, 6760, 6761, 6762, 6763, 6764, 6765, 6766,
       6767, 6768, 6769, 6770, 6771, 6772, 6773, 6774, 6775, 6776, 6777, 6778, 6779, 6780, 6781, 6782,
       6783, 6784, 6785, 6786, 6787, 6788, 6789, 6790, 6791, 6792, 6793, 6794, 6795, 6796, 6797, 6798,
       6799, 6800, 6801, 6802, 6803, 6804, 6805, 6806, 6807, 6808, 6809, 6810, 6811, 6812, 6813, 6814,
       6815, 6816, 6817, 6818, 6819, 6820, 6821, 6822, 6823, 6824, 6825, 6826, 6827, 6828, 6829, 6830,
       6831, 6832, 6833, 6834, 6835, 6836, 6837, 6838, 6839, 6840, 6841, 6842, 6843, 6844, 6845, 6846,
       6847, 6848, 6849, 6850, 6851, 6852, 6853, 6854, 6855, 6856, 6857, 6858, 6859, 6860, 6861, 6862,
       6863, 6864, 6865, 6866, 6867, 6868, 6869, 6870, 6871, 6872, 6873, 6874, 6875, 6876, 6877, 6878,
       6879, 6880, 6881, 6882, 6883, 6884, 6885, 6886, 6887, 6888, 6889, 6890, 6891, 6892, 6893, 6894,
       6895, 6896, 6897, 6898, 6899, 6900, 6901, 6902, 6903, 6904, 6905, 6906, 6907, 6908, 6909, 6910,
       6911, 6912, 6913, 6914, 6915, 6916, 6917, 6918, 6919, 6920, 6921, 6922, 6923, 6924, 6925, 6926,
       6927, 6928, 6929, 6930, 6931, 6932, 6933, 6934, 6935, 6936, 6937, 6938, 6939, 6940, 6941, 6942,
       6943, 6944, 6945, 6946, 6947, 6948, 6949, 6950, 6951, 6952, 6953, 6954, 6955, 6956, 6957, 6958,
       6959, 6960, 6961, 6962, 6963, 6964, 6965, 6966, 6967, 6968, 6969, 6970, 6971, 6972, 6973, 6974,
       6975, 6976, 6977, 6978, 6979, 6980, 6981, 6982, 6983, 6984, 6985, 6986, 6987, 6988, 6989, 6990,
       6991, 6992, 6993, 6994, 6995, 6996, 6997, 6998, 6999, 7000, 7001, 7002, 7003, 7004, 7005, 7006,
       7007, 7008, 7009, 7010, 7011, 7012, 7013, 7014, 7015, 7016, 7017, 7018, 7019, 7020, 7021, 7022,
       7023, 7024, 7025, 7026, 7027, 7028, 7029, 7030, 7031, 7032, 7033, 7034, 7035, 7036, 7037, 7038,
       7039, 7040, 7041, 7042, 7043, 7044, 7045, 7046, 7047, 7048, 7049, 7050, 7051, 7052, 7053, 7054,
       7055, 7056, 7057, 7058, 7059, 7060, 7061, 7062, 7063, 7064, 7065, 7066, 7067, 7068, 7069, 7070,
       7071, 7072, 7073, 7074, 7075, 7076, 7077, 7078, 7079, 7080, 7081, 7082, 7083, 7084, 7085, 7086,
       7087, 7088, 7089, 7090, 7091, 7092, 7093, 7094, 7095, 7096, 7097, 7098, 7099, 7100, 7101, 7102,
       7103, 7104, 7105, 7106, 7107, 7108, 7109, 7110, 7111, 7112, 7113, 7114, 7115, 7116, 7117, 7118,
       7119, 7120, 7121, 7122, 7123, 7124, 7125, 7126, 7127, 7128, 7129, 7130, 7131, 7132, 7133, 7134,
       7135, 7136, 7137, 7138, 7139, 7140, 7141, 7142, 7143, 7144, 7145, 7146, 7147, 7148, 7149, 7150,
       7151, 7152, 7153, 7154, 7155, 7156, 7157, 7158, 7159, 7160, 7161, 7162, 7163, 7164, 7165, 7166,
       7167, 7168, 7169, 7170, 7171, 7172, 7173, 7174, 7175, 7176, 7177, 7178, 7179, 7180, 7181, 7182,
       7183, 7184, 7185, 7186, 7187, 7188, 7189, 7190, 7191, 7192, 7193, 7194, 7195, 7196, 7197, 7198,
       7199, 7200, 7201, 7202, 7203, 7204, 7205, 7206, 7207, 7208, 7209, 7210, 7211, 7212, 7213, 7214,
       7215, 7216, 7217, 7218, 7219, 7220, 7221, 7222, 7223, 7224, 7225, 7226, 7227, 7228, 7229, 7230,
       7231, 7232, 7233, 7234, 7235, 7236, 7237, 7238, 7239, 7240, 7241, 7242, 7243, 7244, 7245, 7246,
       7247, 7248, 7249, 7250, 7251, 7252, 7253, 7254, 7255, 7256, 7257, 7258, 7259, 7260, 7261, 7262,
       7263, 7264, 7265, 7266, 7267, 7268, 7269, 7270, 7271, 7272, 7273, 7274, 7275, 7276, 7277, 7278,
       7279, 7280, 7281, 7282, 7283, 7284, 7285, 7286, 7287, 7288, 7289, 7290, 7291, 7292, 7293, 7294,
       7295, 7296, 7297, 7298, 7299, 7300, 7301, 7302, 7303, 7304, 7305, 7306, 7307, 7308, 7309, 7310,
       7311, 7312, 7313, 7314, 7315, 7316, 7317, 7318, 7319, 7320, 7321, 7322, 7323, 7324, 7325, 7326,
       7327, 7328, 7329, 7330, 7331, 7332, 7333, 7334, 7335, 7336, 7337, 7338, 7339, 7340, 7341, 7342,
       7343, 7344, 7345, 7346, 7347, 7348, 7349, 7350, 7351, 7352, 7353, 7354, 7355, 7356, 7357, 7358,
       7359, 7360, 7361, 7362, 7363, 7364, 7365, 7366, 7367, 7368, 7369, 7370, 7371, 7372, 7373, 7374,
       7375, 7376, 7377, 7378, 7379, 7380, 7381, 7382, 7383, 7384, 7385, 7386, 7387, 7388, 7389, 7390,
       7391, 7392, 7393, 7394, 7395, 7396, 7397, 7398, 7399, 7400, 7401, 7402, 7403, 7404, 7405, 7406,
       7407, 7408, 7409, 7410, 7411, 7412, 7413, 7414, 7415, 7416, 7417, 7418, 7419, 7420, 7421, 7422,
       7423, 7424, 7425, 7426, 7427, 7428, 7429, 7430, 7431, 7432, 7433, 7434, 7435, 7436, 7437, 7438,
       7439, 7440, 7441, 7442, 7443, 7444, 7445, 7446, 7447, 7448, 7449, 7450, 7451, 7452, 7453, 7454,
       7455, 7456, 7457, 7458, 7459, 7460, 7461, 7462, 7463, 7464, 7465, 7466, 7467, 7468, 7469, 7470,
       7471, 7472, 7473, 7474, 7475, 7476, 7477, 7478, 7479, 7480, 7481, 7482, 7483, 7484, 7485, 7486,
       7487, 7488, 7489, 7490, 7491, 7492, 7493, 7494, 7495, 7496, 7497, 7498, 7499, 7500, 7501, 7502,
       7503, 7504, 7505, 7506, 7507, 7508, 7509, 7510, 7511, 7512, 7513, 7514, 7515, 7516, 7517, 7518,
       7519, 7520, 7521, 7522, 7523, 7524, 7525, 7526, 7527, 7528, 7529, 7530, 7531, 7532, 7533, 7534,
       7535, 7536, 7537, 7538, 7539, 7540, 7541, 7542, 7543, 7544, 7545, 7546, 7547, 7548, 7549, 7550,
       7551, 7552, 7553, 7554, 7555, 7556, 7557, 7558, 7559, 7560, 7561, 7562, 7563, 7564, 7565, 7566,
       7567, 7568, 7569, 7570, 7571, 7572, 7573, 7574, 7575, 7576, 7577, 7578, 7579, 7580, 7581, 7582,
       7583, 7584, 7585, 7586, 7587, 7588, 7589, 7590, 7591, 7592, 7593, 7594, 7595, 7596, 7597, 7598,
       7599, 7600, 7601, 7602, 7603, 7604, 7605, 7606, 7607, 7608, 7609, 7610, 7611, 7612, 7613, 7614,
       7615, 7616, 7617, 7618, 7619, 7620, 7621, 7622, 7623, 7624, 7625, 7626, 7627, 7628, 7629, 7630,
       7631, 7632, 7633, 7634, 7635, 7636, 7637, 7638, 7639, 7640, 7641, 7642, 7643, 7644, 7645, 7646,
       7647, 7648, 7649, 7650, 7651, 7652, 7653, 7654, 7655, 7656, 7657, 7658, 7659, 7660, 7661, 7662,
       7663, 7664, 7665, 7666, 7667, 7668, 7669, 7670, 7671, 7672, 7673, 7674, 7675, 7676, 7677, 7678,
       7679, 7680, 7681, 7682, 7683, 7684, 7685, 7686, 7687, 7688, 7689, 7690, 7691, 7692, 7693, 7694,
       7695, 7696, 7697, 7698, 7699, 7700, 7701, 7702, 7703, 7704, 7705, 7706, 7707, 7708, 7709, 7710,
       7711, 7712, 7713, 7714, 7715, 7716, 7717, 7718, 7719, 7720, 7721, 7722, 7723, 7724, 7725, 7726,
       7727, 7728, 7729, 7730, 7731, 7732, 7733, 7734, 7735, 7736, 7737, 7738, 7739, 7740, 7741, 7742,
       7743, 7744, 7745, 7746, 7747, 7748, 7749, 7750, 7751, 7752, 7753, 7754, 7755, 7756, 7757, 7758,
       7759, 7760, 7761, 7762, 7763, 7764, 7765, 7766, 7767, 7768, 7769, 7770, 7771, 7772, 7773, 7774,
       7775, 7776, 7777, 7778, 7779, 7780, 7781, 7782, 7783, 7784, 7785, 7786, 7787, 7788, 7789, 7790,
       7791, 7792, 7793, 7794, 7795, 7796, 7797, 7798, 7799, 7800, 7801, 7802, 7803, 7804, 7805, 7806,
       7807, 7808, 7809, 7810, 7811, 7812, 7813, 7814, 7815, 7816, 7817, 7818, 7819, 7820, 7821, 7822,
       7823, 7824, 7825, 7826, 7827, 7828, 7829, 7830, 7831, 7832, 7833, 7834, 7835, 7836, 7837, 7838,
       7839, 7840, 7841, 7842, 7843, 7844, 7845, 7846, 7847, 7848, 7849, 7850, 7851, 7852, 7853, 7854,
       7855, 7856, 7857, 7858, 7859, 7860, 7861, 7862, 7863, 7864, 7865, 7866, 7867, 7868, 7869, 7870,
       7871, 7872, 7873, 7874, 7875, 7876, 7877, 7878, 7879, 7880, 7881, 7882, 7883, 7884, 7885, 7886,
       7887, 7888, 7889, 7890, 7891, 7892, 7893, 7894, 7895, 7896, 7897, 7898, 7899, 7900, 7901, 7902,
       7903, 7904, 7905, 7906, 7907, 7908, 7909, 7910, 7911, 7912, 7913, 7914, 7915, 7916, 7917, 7918,
       7919, 7920, 7921, 7922, 7923, 7924, 7925, 7926, 7927, 7928, 7929, 7930, 7931, 7932, 7933, 7934,
       7935, 7936, 7937, 7938, 7939, 7940, 7941, 7942, 7943, 7944, 7945, 7946, 7947, 7948, 7949, 7950,
       7951, 7952, 7953, 7954, 7955, 7956, 7957, 7958, 7959, 7960, 7961, 7962, 7963, 7964, 7965, 7966,
       7967, 7968, 7969, 7970, 7971, 7972, 7973, 7974, 7975, 7976, 7977, 7978, 7979, 7980, 7981, 7982,
       7983, 7984, 7985, 7986, 7987, 7988, 7989, 7990, 7991, 7992, 7993, 7994, 7995, 7996, 7997, 7998,
       7999, 8000, 8001, 8002, 8003, 8004, 8005, 8006, 8007, 8008, 8009, 8010, 8011, 8012, 8013, 8014,
       8015, 8016, 8017, 8018, 8019, 8020, 8021, 8022, 8023, 8024, 8025, 8026, 8027, 8028, 8029, 8030,
       8031, 8032, 8033, 8034, 8035, 8036, 8037, 8038, 8039, 8040, 8041, 8042, 8043, 8044, 8045, 8046,
       8047, 8048, 8049, 8050, 8051, 8052, 8053, 8054, 8055, 8056, 8057, 8058, 8059, 8060, 8061, 8062,
       8063, 8064, 8065, 8066, 8067, 8068, 8069, 8070, 8071, 8072, 8073, 8074, 8075, 8076, 8077, 8078,
       8079, 8080, 8081, 8082, 8083, 8084, 8085, 8086, 8087, 8088, 8089, 8090, 8091, 8092, 8093, 8094,
       8095, 8096, 8097, 8098, 8099, 8100, 8101, 8102, 8103, 8104, 8105, 8106, 8107, 8108, 8109, 8110,
       8111, 8112, 8113, 8114, 8115, 8116, 8117, 8118, 8119, 8120, 8121, 8122, 8123, 8124, 8125, 8126,
       8127, 8128, 8129, 8130, 8131, 8132, 8133, 8134, 8135, 8136, 8137, 8138, 8139, 8140, 8141, 8142,
       8143, 8144, 8145, 8146, 8147, 8148, 8149, 8150, 8151, 8152, 8153, 8154, 8155, 8156, 8157, 8158,
       8159, 8160, 8161, 8162, 8163, 8164, 8165, 8166, 8167, 8168, 8169, 8170, 8171, 8172, 8173, 8174,
       8175, 8176, 8177, 8178, 8179, 8180, 8181, 8182, 8183, 8184, 8185, 8186, 8187, 8188, 8189, 8190,
       8191, 8192, 8193, 8194, 8195, 8196, 8197, 8198, 8199, 8200, 8201, 8202, 8203, 8204, 8205, 8206,
       8207, 8208, 8209, 8210, 8211, 8212, 8213, 8214, 8215, 8216, 8217, 8218, 8219, 8220, 8221, 8222,
       8223, 8224, 8225, 8226, 8227, 8228, 8229, 8230, 8231, 8232, 8233, 8234, 8235, 8236, 8237, 8238,
       8239, 8240, 8241, 8242, 8243, 8244, 8245, 8246, 8247, 8248, 8249, 8250, 8251, 8252, 8253, 8254,
       8255, 8256, 8257, 8258, 8259, 8260, 8261, 8262, 8263, 8264, 8265, 8266, 8267, 8268, 8269, 8270,
       8271, 8272, 8273, 8274, 8275, 8276, 8277, 8278, 8279, 8280, 8281, 8282, 8283, 8284, 8285, 8286,
       8287, 8288, 8289, 8290, 8291, 8292, 8293, 8294, 8295, 8296, 8297, 8298, 8299, 8300, 8301, 8302,
       8303, 8304, 8305, 8306, 8307, 8308, 8309, 8310, 8311, 8312, 8313, 8314, 8315, 8316, 8317, 8318,
       8319, 8320, 8321, 8322, 8323, 8324, 8325, 8326, 8327, 8328, 8329, 8330, 8331, 8332, 8333, 8334,
       8335, 8336, 8337, 8338, 8339, 8340, 8341, 8342, 8343, 8344, 8345, 8346, 8347, 8348, 8349, 8350,
       8351, 8352, 8353, 8354, 8355, 8356, 8357, 8358, 8359, 8360, 8361, 8362, 8363, 8364, 8365, 8366,
       8367, 8368, 8369, 8370, 8371, 8372, 8373, 8374, 8375, 8376, 8377, 8378, 8379, 8380, 8381, 8382,
       8383, 8384, 8385, 8386, 8387, 8388, 8389, 8390, 8391, 8392, 8393, 8394, 8395, 8396, 8397, 8398,
       8399, 8400, 8401, 8402, 8403, 8404, 8405, 8406, 8407, 8408, 8409, 8410, 8411, 8412, 8413, 8414,
       8415, 8416, 8417, 8418, 8419, 8420, 8421, 8422, 8423, 8424, 8425, 8426, 8427, 8428, 8429, 8430,
       8431, 8432, 8433, 8434, 8435, 8436, 8437, 8438, 8439, 8440, 8441, 8442, 8443, 8444, 8445, 8446,
       8447, 8448, 8449, 8450, 8451, 8452, 8453, 8454, 8455, 8456, 8457, 8458, 8459, 8460, 8461, 8462,
       8463, 8464, 8465, 8466, 8467, 8468, 8469, 8470, 8471, 8472, 8473, 8474, 8475, 8476, 8477, 8478,
       8479, 8480, 8481, 8482, 8483, 8484, 8485, 8486, 8487, 8488, 8489, 8490, 8491, 8492, 8493, 8494,
       8495, 8496, 8497, 8498, 8499, 8500, 8501, 8502, 8503, 8504, 8505, 8506, 8507, 8508, 8509, 8510,
       8511, 8512, 8513, 8514, 8515, 8516, 8517, 8518, 8519, 8520, 8521, 8522, 8523, 8524, 8525, 8526,
       8527, 8528, 8529, 8530, 8531, 8532, 8533, 8534, 8535, 8536, 8537, 8538, 8539, 8540, 8541, 8542,
       8543, 8544, 8545, 8546, 8547, 8548, 8549, 8550, 8551, 8552, 8553, 8554, 8555, 8556, 8557, 8558,
       8559, 8560, 8561, 8562, 8563, 8564, 8565, 8566, 8567, 8568, 8569, 8570, 8571, 8572, 8573, 8574,
       8575, 8576, 8577, 8578, 8579, 8580, 8581, 8582, 8583, 8584, 8585, 8586, 8587, 8588, 8589, 8590,
       8591, 8592, 8593, 8594, 8595, 8596, 8597, 8598, 8599, 8600, 8601, 8602, 8603, 8604, 8605, 8606,
       8607, 8608, 8609, 8610, 8611, 8612, 8613, 8614, 8615, 8616, 8617, 8618, 8619, 8620, 8621, 8622,
       8623, 8624, 8625, 8626, 8627, 8628, 8629, 8630, 8631, 8632, 8633, 8634, 8635, 8636, 8637, 8638,
       8639, 8640, 8641, 8642, 8643, 8644, 8645, 8646, 8647, 8648, 8649, 8650, 8651, 8652, 8653, 8654,
       8655, 8656, 8657, 8658, 8659, 8660, 8661, 8662, 8663, 8664, 8665, 8666, 8667, 8668, 8669, 8670,
       8671, 8672, 8673, 8674, 8675, 8676, 8677, 8678, 8679, 8680, 8681, 8682, 8683, 8684, 8685, 8686,
       8687, 8688, 8689, 8690, 8691, 8692, 8693, 8694, 8695, 8696, 8697, 8698, 8699, 8700, 8701, 8702,
       8703, 8704, 8705, 8706, 8707, 8708, 8709, 8710, 8711, 8712, 8713, 8714, 8715, 8716, 8717, 8718,
       8719, 8720, 8721, 8722, 8723, 8724, 8725, 8726, 8727, 8728, 8729, 8730, 8731, 8732, 8733, 8734,
       8735, 8736, 8737, 8738, 8739, 8740, 8741, 8742, 8743, 8744, 8745, 8746, 8747, 8748, 8749, 8750,
       8751, 8752, 8753, 8754, 8755, 8756, 8757, 8758, 8759, 8760, 8761, 8762, 8763, 8764, 8765, 8766,
       8767, 8768, 8769, 8770, 8771, 8772, 8773, 8774, 8775, 8776, 8777, 8778, 8779, 8780, 8781, 8782,
       8783, 8784, 8785, 8786, 8787, 8788, 8789, 8790, 8791, 8792, 8793, 8794, 8795, 8796, 8797, 8798,
       8799, 8800, 8801, 8802, 8803, 8804, 8805, 8806, 8807, 8808, 8809, 8810, 8811, 8812, 8813, 8814,
       8815, 8816, 8817, 8818, 8819, 8820, 8821, 8822, 8823, 8824, 8825, 8826, 8827, 8828, 8829, 8830,
       8831, 8832, 8833, 8834, 8835, 8836, 8837, 8838, 8839, 8840, 8841, 8842, 8843, 8844, 8845, 8846,
       8847, 8848, 8849, 8850, 8851, 8852, 8853, 8854, 8855, 8856, 8857, 8858, 8859, 8860, 8861, 8862,
       8863, 8864, 8865, 8866, 8867, 8868, 8869, 8870, 8871, 8872, 8873, 8874, 8875, 8876, 8877, 8878,
       8879, 8880, 8881, 8882, 8883, 8884, 8885, 8886, 8887, 8888, 8889, 8890, 8891, 8892, 8893, 8894,
       8895, 8896, 8897, 8898, 8899, 8900, 8901, 8902, 8903, 8904, 8905, 8906, 8907, 8908, 8909, 8910,
       8911, 8912, 8913, 8914, 8915, 8916, 8917, 8918, 8919, 8920, 8921, 8922, 8923, 8924, 8925, 8926,
       8927, 8928, 8929, 8930, 8931, 8932, 8933, 8934, 8935, 8936, 8937, 8938, 8939, 8940, 8941, 8942,
       8943, 8944, 8945, 8946, 8947, 8948, 8949, 8950, 8951, 8952, 8953, 8954, 8955, 8956, 8957, 8958,
       8959, 8960, 8961, 8962, 8963, 8964, 8965, 8966, 8967, 8968, 8969, 8970, 8971, 8972, 8973, 8974,
       8975, 8976, 8977, 8978, 8979, 8980, 8981, 8982, 8983, 8984, 8985, 8986, 8987, 8988, 8989, 8990,
       8991, 8992, 8993, 8994, 8995, 8996, 8997, 8998, 8999, 9000, 9001, 9002, 9003, 9004, 9005, 9006,
       9007, 9008, 9009, 9010, 9011, 9012, 9013, 9014, 9015, 9016, 9017, 9018, 9019, 9020, 9021, 9022,
       9023, 9024, 9025, 9026, 9027, 9028, 9029, 9030, 9031, 9032, 9033, 9034, 9035, 9036, 9037, 9038,
       9039, 9040, 9041, 9042, 9043, 9044, 9045, 9046, 9047, 9048, 9049, 9050, 9051, 9052, 9053, 9054,
       9055, 9056, 9057, 9058, 9059, 9060, 9061, 9062, 9063, 9064, 9065, 9066, 9067, 9068, 9069, 9070,
       9071, 9072, 9073, 9074, 9075, 9076, 9077, 9078, 9079, 9080, 9081, 9082, 9083, 9084, 9085, 9086,
       9087, 9088, 9089, 9090, 9091, 9092, 9093, 9094, 9095, 9096, 9097, 9098, 9099, 9100, 9101, 9102,
       9103, 9104, 9105, 9106, 9107, 9108, 9109, 9110, 9111, 9112, 9113, 9114, 9115, 9116, 9117, 9118,
       9119, 9120, 9121, 9122, 9123, 9124, 9125, 9126, 9127, 9128, 9129, 9130, 9131, 9132, 9133, 9134,
       9135, 9136, 9137, 9138, 9139, 9140, 9141, 9142, 9143, 9144, 9145, 9146, 9147, 9148, 9149, 9150,
       9151, 9152, 9153, 9154, 9155, 9156, 9157, 9158, 9159, 9160, 9161, 9162, 9163, 9164, 9165, 9166,
       9167, 9168, 9169, 9170, 9171, 9172, 9173, 9174, 9175, 9176, 9177, 9178, 9179, 9180, 9181, 9182,
       9183, 9184, 9185, 9186, 9187, 9188, 9189, 9190, 9191, 9192, 9193, 9194, 9195, 9196, 9197, 9198,
       9199, 9200, 9201, 9202, 9203, 9204, 9205, 9206, 9207, 9208, 9209, 9210, 9211, 9212, 9213, 9214,
       9215, 9216, 9217, 9218, 9219, 9220, 9221, 9222, 9223, 9224, 9225, 9226, 9227, 9228, 9229, 9230,
       9231, 9232, 9233, 9234, 9235, 9236, 9237, 9238, 9239, 9240, 9241, 9242, 9243, 9244, 9245, 9246,
       9247, 9248, 9249, 9250, 9251, 9252, 9253, 9254, 9255, 9256, 9257, 9258, 9259, 9260, 9261, 9262,
       9263, 9264, 9265, 9266, 9267, 9268, 9269, 9270, 9271, 9272, 9273, 9274, 9275, 9276, 9277, 9278,
       9279, 9280, 9281, 9282, 9283, 9284, 9285, 9286, 9287, 9288, 9289, 9290, 9291, 9292, 9293, 9294,
       9295, 9296, 9297, 9298, 9299, 9300, 9301, 9302, 9303, 9304, 9305, 9306, 9307, 9308, 9309, 9310,
       9311, 9312, 9313, 9314, 9315, 9316, 9317, 9318, 9319, 9320, 9321, 9322, 9323, 9324, 9325, 9326,
       9327, 9328, 9329, 9330, 9331, 9332, 9333, 9334, 9335, 9336, 9337, 9338, 9339, 9340, 9341, 9342,
       9343, 9344, 9345, 9346, 9347, 9348, 9349, 9350, 9351, 9352, 9353, 9354, 9355, 9356, 9357, 9358,
       9359, 9360, 9361, 9362, 9363, 9364, 9365, 9366, 9367, 9368, 9369, 9370, 9371, 9372, 9373, 9374,
       9375, 9376, 9377, 9378, 9379, 9380, 9381, 9382, 9383, 9384, 9385, 9386, 9387, 9388, 9389, 9390,
       9391, 9392, 9393, 9394, 9395, 9396, 9397, 9398, 9399, 9400, 9401, 9402, 9403, 9404, 9405, 9406,
       9407, 9408, 9409, 9410, 9411, 9412, 9413, 9414, 9415, 9416, 9417, 9418, 9419, 9420, 9421, 9422,
       9423, 9424, 9425, 9426, 9427, 9428, 9429, 9430, 9431, 9432, 9433, 9434, 9435, 9436, 9437, 9438,
       9439, 9440, 9441, 9442, 9443, 9444, 9445, 9446, 9447, 9448, 9449, 9450, 9451, 9452, 9453, 9454,
       9455, 9456, 9457, 9458, 9459, 9460, 9461, 9462, 9463, 9464, 9465, 9466, 9467, 9468, 9469, 9470,
       9471, 9472, 9473, 9474, 9475, 9476, 9477, 9478, 9479, 9480, 9481, 9482, 9483, 9484, 9485, 9486,
       9487, 9488, 9489, 9490, 9491, 9492, 9493, 9494, 9495, 9496, 9497, 9498, 9499, 9500, 9501, 9502,
       9503, 9504, 9505, 9506, 9507, 9508, 9509, 9510, 9511, 9512, 9513, 9514, 9515, 9516, 9517, 9518,
       9519, 9520, 9521, 9522, 9523, 9524, 9525, 9526, 9527, 9528, 9529, 9530, 9531, 9532, 9533, 9534,
       9535, 9536, 9537, 9538, 9539, 9540, 9541, 9542, 9543, 9544, 9545, 9546, 9547, 9548, 9549, 9550,
       9551, 9552, 9553, 9554, 9555, 9556, 9557, 9558, 9559, 9560, 9561, 9562, 9563, 9564, 9565, 9566,
       9567, 9568, 9569, 9570, 9571, 9572, 9573, 9574, 9575, 9576, 9577, 9578, 9579, 9580, 9581, 9582,
       9583, 9584, 9585, 9586, 9587, 9588, 9589, 9590, 9591, 9592, 9593, 9594, 9595, 9596, 9597, 9598,
       9599, 9600, 9601, 9602, 9603, 9604, 9605, 9606, 9607, 9608, 9609, 9610, 9611, 9612, 9613, 9614,
       9615, 9616, 9617, 9618, 9619, 9620, 9621, 9622, 9623, 9624, 9625, 9626, 9627, 9628, 9629, 9630,
       9631, 9632, 9633, 9634, 9635, 9636, 9637, 9638, 9639, 9640, 9641, 9642, 9643, 9644, 9645, 9646,
       9647, 9648, 9649, 9650, 9651, 9652, 9653, 9654, 9655, 9656, 9657, 9658, 9659, 9660, 9661, 9662,
       9663, 9664, 9665, 9666, 9667, 9668, 9669, 9670, 9671, 9672, 9673, 9674, 9675, 9676, 9677, 9678,
       9679, 9680, 9681, 9682, 9683, 9684, 9685, 9686, 9687, 9688, 9689, 9690, 9691, 9692, 9693, 9694,
       9695, 9696, 9697, 9698, 9699, 9700, 9701, 9702, 9703, 9704, 9705, 9706, 9707, 9708, 9709, 9710,
       9711, 9712, 9713, 9714, 9715, 9716, 9717, 9718, 9719, 9720, 9721, 9722, 9723, 9724, 9725, 9726,
       9727, 9728, 9729, 9730, 9731, 9732, 9733, 9734, 9735, 9736, 9737, 9738, 9739, 9740, 9741, 9742,
       9743, 9744, 9745, 9746, 9747, 9748, 9749, 9750, 9751, 9752, 9753, 9754, 9755, 9756, 9757, 9758,
       9759, 9760, 9761, 9762, 9763, 9764, 9765, 9766, 9767, 9768, 9769, 9770, 9771, 9772, 9773, 9774,
       9775, 9776, 9777, 9778, 9779, 9780, 9781, 9782, 9783, 9784, 9785, 9786, 9787, 9788, 9789, 9790,
       9791, 9792, 9793, 9794, 9795, 9796, 9797, 9798, 9799, 9800, 9801, 9802, 9803, 9804, 9805, 9806,
       9807, 9808, 9809, 9810, 9811, 9812, 9813, 9814, 9815, 9816, 9817, 9818, 9819, 9820, 9821, 9822,
       9823, 9824, 9825, 9826, 9827, 9828, 9829, 9830, 9831, 9832, 9833, 9834, 9835, 9836, 9837, 9838,
       9839, 9840, 9841, 9842, 9843, 9844, 9845, 9846, 9847, 9848, 9849, 9850, 9851, 9852, 9853, 9854,
       9855, 9856, 9857, 9858, 9859, 9860, 9861, 9862, 9863, 9864, 9865, 9866, 9867, 9868, 9869, 9870,
       9871, 9872, 9873, 9874, 9875, 9876, 9877, 9878, 9879, 9880, 9881, 9882, 9883, 9884, 9885, 9886,
       9887, 9888, 9889, 9890, 9891, 9892, 9893, 9894, 9895, 9896, 9897, 9898, 9899, 9900, 9901, 9902,
       9903, 9904, 9905, 9906, 9907, 9908, 9909, 9910, 9911, 9912, 9913, 9914, 9915, 9916, 9917, 9918,
       9919, 9920, 9921, 9922, 9923, 9924, 9925, 9926, 9927, 9928, 9929, 9930, 9931, 9932, 9933, 9934,
       9935, 9936, 9937, 9938, 9939, 9940, 9941, 9942, 9943, 9944, 9945, 9946, 9947, 9948, 9949, 9950,
       9951, 9952, 9953, 9954, 9955, 9956, 9957, 9958, 9959 >>

\* self.historial after 9960 steps.

HistorialTardio ==
    [t |-> <<
       1332, 1338, 1344, 1350, 1356, 1357, 1363, 1369, 1375, 1381, 1387, 1393, 1399, 1405, 1411, 1417,
       1423, 1429, 1435, 1441, 1447, 1453, 1459, 1465, 1471, 1477, 1483, 1489, 1495, 1501, 1507, 1513,
       1519, 1525, 1531, 1537, 1543, 1549, 1555, 1561, 1567, 1573, 1579, 1585, 1591, 1597, 1603, 1609,
       1615, 1621, 1627, 1633, 1639, 1645, 1651, 1657, 1663, 1669, 1675, 1681, 1687, 1693, 1699, 1705,
       1711, 1717, 1723, 1729, 1735, 1741, 1747, 1753, 1759, 1765, 1771, 1777, 1783, 1789, 1795, 1801,
       1807, 1813, 1819, 1825, 1831, 1837, 1843, 1849, 1855, 1861, 1867, 1873, 1879, 1885, 1891, 1897,
       1903, 1909, 1915, 1921, 1927, 1933, 1939, 1945, 1951, 1957, 1963, 1969, 1975, 1981, 1987, 1993,
       1999, 2005, 2011, 2017, 2023, 2029, 2035, 2041, 2047, 2053, 2059, 2065, 2071, 2077, 2083, 2089,
       2095, 2101, 2107, 2113, 2119, 2125, 2131, 2137, 2143, 2149, 2155, 2161, 2167, 2173, 2179, 2185,
       2191, 2197, 2203, 2209, 2215, 2221, 2227, 2233, 2239, 2245, 2251, 2257, 2263, 2269, 2275, 2281,
       2287, 2293, 2299, 2305, 2311, 2317, 2323, 2329, 2335, 2341, 2347, 2353, 2359, 2365, 2371, 2377,
       2383, 2389, 2395, 2401, 2407, 2413, 2419, 2425, 2431, 2437, 2443, 2449, 2455, 2461, 2467, 2473,
       2479, 2485, 2491, 2497, 2503, 2509, 2515, 2521, 2527, 2533, 2539, 2545, 2551, 2557, 2563, 2569,
       2575, 2581, 2587, 2593, 2599, 2605, 2611, 2617, 2623, 2629, 2635, 2641, 2647, 2653, 2659, 2665,
       2671, 2677, 2683, 2689, 2695, 2701, 2707, 2713, 2719, 2725, 2731, 2737, 2743, 2749, 2755, 2761,
       2767, 2773, 2779, 2785, 2791, 2797, 2803, 2809, 2815, 2821, 2827, 2833, 2839, 2845, 2851, 2857,
       2863, 2869, 2875, 2881, 2887, 2893, 2899, 2905, 2911, 2917, 2923, 2929, 2935, 2941, 2947, 2953,
       2959, 2965, 2971, 2977, 2983, 2989, 2995, 3001, 3007, 3013, 3019, 3025, 3031, 3037, 3043, 3049,
       3055, 3061, 3067, 3073, 3079, 3085, 3091, 3097, 3103, 3109, 3115, 3121, 3127, 3133, 3139, 3145,
       3151, 3157, 3163, 3169, 3175, 3181, 3187, 3193, 3199, 3205, 3211, 3217, 3223, 3229, 3235, 3241,
       3247, 3253, 3259, 3265, 3271, 3277, 3283, 3289, 3295, 3301, 3307, 3313, 3319, 3325, 3331, 3337,
       3343, 3349, 3355, 3361, 3367, 3373, 3379, 3385, 3391, 3397, 3403, 3409, 3415, 3421, 3427, 3433,
       3439, 3445, 3451, 3457, 3463, 3469, 3475, 3481, 3487, 3493, 3499, 3505, 3511, 3517, 3523, 3529,
       3535, 3541, 3547, 3553, 3559, 3565, 3571, 3577, 3583, 3589, 3595, 3601, 3607, 3613, 3619, 3625,
       3631, 3637, 3643, 3649, 3655, 3661, 3667, 3673, 3679, 3685, 3691, 3697, 3703, 3709, 3715, 3721,
       3727, 3733, 3739, 3745, 3751, 3757, 3763, 3769, 3775, 3781, 3787, 3793, 3799, 3805, 3811, 3817,
       3823, 3829, 3835, 3841, 3847, 3853, 3859, 3865, 3871, 3877, 3883, 3889, 3895, 3901, 3907, 3913,
       3919, 3925, 3931, 3937, 3943, 3949, 3955, 3961, 3967, 3973, 3979, 3985, 3991, 3997, 4003, 4009,
       4015, 4021, 4027, 4033, 4039, 4045, 4051, 4057, 4063, 4069, 4075, 4081, 4087, 4093, 4099, 4105,
       4111, 4117, 4123, 4129, 4135, 4141, 4147, 4153, 4159, 4165, 4171, 4177, 4183, 4189, 4195, 4201,
       4207, 4213, 4219, 4225, 4231, 4237, 4243, 4249, 4255, 4261, 4267, 4273, 4279, 4285, 4291, 4297,
       4303, 4309, 4315, 4321, 4327, 4333, 4339, 4345, 4351, 4357, 4363, 4369, 4375, 4381, 4387, 4393,
       4399, 4405, 4411, 4417, 4423, 4429, 4435, 4441, 4447, 4453, 4459, 4465, 4471, 4477, 4483, 4489,
       4495, 4501, 4507, 4513, 4519, 4525, 4531, 4537, 4543, 4549, 4555, 4561, 4567, 4573, 4579, 4585,
       4591, 4597, 4603, 4609, 4615, 4621, 4627, 4633, 4639, 4645, 4651, 4657, 4663, 4669, 4675, 4681,
       4687, 4693, 4699, 4705, 4711, 4717, 4723, 4729, 4735, 4741, 4747, 4753, 4759, 4765, 4771, 4777,
       4783, 4789, 4795, 4801, 4807, 4813, 4819, 4825, 4831, 4837, 4843, 4849, 4855, 4861, 4867, 4873,
       4879, 4885, 4891, 4897, 4903, 4909, 4915, 4921, 4927, 4933, 4939, 4945, 4951, 4957, 4963, 4969,
       4975, 4981, 4987, 4993, 4999, 5005, 5011, 5017, 5023, 5029, 5035, 5041, 5047, 5053, 5059, 5065,
       5071, 5077, 5083, 5089, 5095, 5101, 5107, 5113, 5119, 5125, 5131, 5137, 5143, 5149, 5155, 5161,
       5167, 5173, 5179, 5185, 5191, 5197, 5203, 5209, 5215, 5221, 5227, 5233, 5239, 5245, 5251, 5257,
       5263, 5269, 5275, 5281, 5287, 5293, 5299, 5305, 5311, 5317, 5323, 5329, 5335, 5341, 5347, 5353,
       5359, 5365, 5371, 5377, 5383, 5389, 5395, 5401, 5407, 5413, 5419, 5425, 5431, 5437, 5443, 5449,
       5455, 5461, 5467, 5473, 5479, 5485, 5491, 5497, 5503, 5509, 5515, 5521, 5527, 5533, 5539, 5545,
       5551, 5557, 5563, 5569, 5575, 5581, 5587, 5593, 5599, 5605, 5611, 5617, 5623, 5629, 5635, 5641,
       5647, 5653, 5659, 5665, 5671, 5677, 5683, 5689, 5695, 5701, 5707, 5713, 5719, 5725, 5731, 5737,
       5743, 5749, 5755, 5761, 5767, 5773, 5779, 5785, 5791, 5797, 5803, 5809, 5815, 5821, 5827, 5833,
       5839, 5845, 5851, 5857, 5863, 5869, 5875, 5881, 5887, 5893, 5899, 5905, 5911, 5917, 5923, 5929,
       5935, 5941, 5947, 5953, 5959, 5965, 5971, 5977, 5983, 5989, 5995, 6001, 6007, 6013, 6019, 6025,
       6031, 6037, 6043, 6049, 6055, 6061, 6067, 6073, 6079, 6085, 6091, 6097, 6103, 6109, 6115, 6121,
       6127, 6133, 6139, 6145, 6151, 6157, 6163, 6169, 6175, 6181, 6187, 6193, 6199, 6205, 6211, 6217,
       6223, 6229, 6235, 6241, 6247, 6253, 6259, 6265, 6271, 6277, 6283, 6289, 6295, 6301, 6307, 6313,
       6319, 6325, 6331, 6337, 6343, 6349, 6355, 6361, 6367, 6373, 6379, 6385, 6391, 6397, 6403, 6409,
       6415, 6421, 6427, 6433, 6439, 6445, 6451, 6457, 6463, 6469, 6475, 6481, 6487, 6493, 6499, 6505,
       6511, 6517, 6523, 6529, 6535, 6541, 6547, 6553, 6559, 6565, 6571, 6577, 6583, 6589, 6595, 6601,
       6607, 6613, 6619, 6625, 6631, 6637, 6643, 6649, 6655, 6661, 6667, 6673, 6679, 6685, 6691, 6697,
       6703, 6709, 6715, 6721, 6727, 6733, 6739, 6745, 6751, 6757, 6763, 6769, 6775, 6781, 6787, 6793,
       6799, 6805, 6811, 6817, 6823, 6829, 6835, 6841, 6847, 6853, 6859, 6865, 6871, 6877, 6883, 6889,
       6895, 6901, 6907, 6913, 6919, 6925, 6931, 6937, 6943, 6949, 6955, 6961, 6967, 6973, 6979, 6985,
       6991, 6997, 7003, 7009, 7015, 7021, 7027, 7033, 7039, 7045, 7051, 7057, 7063, 7069, 7075, 7081,
       7087, 7093, 7099, 7105, 7111, 7117, 7123, 7129, 7135, 7141, 7147, 7153, 7159, 7165, 7171, 7177,
       7183, 7189, 7195, 7201, 7207, 7213, 7219, 7225, 7231, 7237, 7243, 7249, 7255, 7261, 7267, 7273,
       7279, 7285, 7291, 7297, 7303, 7309, 7315, 7321, 7327, 7333, 7339, 7345, 7351, 7357, 7363, 7369,
       7375, 7381, 7387, 7393, 7399, 7405, 7411, 7417, 7423, 7429, 7435, 7441, 7447, 7453, 7459, 7465,
       7471, 7477, 7483, 7489, 7495, 7501, 7507, 7513, 7519, 7525, 7531, 7537, 7543, 7549, 7555, 7561,
       7567, 7573, 7579, 7585, 7591, 7597, 7603, 7609, 7615, 7621, 7627, 7633, 7639, 7645, 7651, 7657,
       7663, 7669, 7675, 7681, 7687, 7693, 7699, 7705, 7711, 7717, 7723, 7729, 7735, 7741, 7747, 7753,
       7759, 7765, 7771, 7777, 7783, 7789, 7795, 7801, 7807, 7813, 7819, 7825, 7831, 7837, 7843, 7849,
       7855, 7861, 7867, 7873, 7879, 7885, 7891, 7897, 7903, 7909, 7915, 7921, 7927, 7933, 7939, 7945,
       7951, 7957, 7963, 7969, 7975, 7981, 7987, 7993, 7999, 8005, 8011, 8017, 8023, 8029, 8035, 8041,
       8047, 8053, 8059, 8065, 8071, 8077, 8083, 8089, 8095, 8101, 8107, 8113, 8119, 8125, 8131, 8136,
       8142, 8148, 8154, 8160, 8166, 8172, 8178, 8184, 8190, 8196, 8202, 8208, 8214, 8220, 8226, 8232,
       8238, 8244, 8250, 8256, 8262, 8268, 8274, 8280, 8286, 8292, 8298, 8304, 8310, 8316, 8322, 8328,
       8334, 8340, 8346, 8352, 8358, 8364, 8370, 8376, 8382, 8388, 8394, 8400, 8406, 8412, 8418, 8424,
       8430, 8436, 8442, 8448, 8454, 8460, 8466, 8472, 8478, 8484, 8490, 8496, 8502, 8508, 8514, 8520,
       8526, 8532, 8538, 8544, 8550, 8556, 8562, 8568, 8574, 8580, 8586, 8592, 8598, 8604, 8610, 8616,
       8622, 8628, 8634, 8640, 8646, 8652, 8658, 8664, 8670, 8676, 8682, 8688, 8694, 8700, 8706, 8712,
       8718, 8724, 8730, 8736, 8742, 8748, 8754, 8760, 8766, 8772, 8778, 8784, 8790, 8796, 8802, 8808,
       8814, 8820, 8826, 8832, 8838, 8844, 8850, 8856, 8862, 8868, 8874, 8880, 8886, 8892, 8898, 8904,
       8910, 8916, 8922, 8928, 8934, 8940, 8946, 8952, 8958, 8964, 8970, 8976, 8982, 8988, 8994, 9000,
       9006, 9012, 9018, 9024, 9030, 9036, 9042, 9048, 9054, 9060, 9066, 9072, 9078, 9084, 9090, 9096,
       9102, 9108, 9114, 9120, 9126, 9132, 9138, 9144, 9150, 9156, 9162, 9168, 9174, 9180, 9186, 9192,
       9198, 9204, 9210, 9216, 9222, 9228, 9234, 9240, 9246, 9252, 9258, 9264, 9270, 9276, 9282, 9288,
       9294, 9300, 9306, 9312, 9318, 9324, 9330, 9336, 9342, 9348, 9354, 9360, 9366, 9372, 9378, 9384,
       9390, 9396, 9402, 9408, 9414, 9420, 9426, 9432, 9438, 9444, 9450, 9456, 9462, 9468, 9474, 9480,
       9486, 9492, 9498, 9504, 9510, 9516, 9522, 9528, 9534, 9540, 9546, 9552, 9558, 9564, 9570, 9576,
       9582, 9588, 9594, 9600, 9606, 9612, 9618, 9624, 9630, 9636, 9642, 9648, 9654, 9660, 9666, 9672,
       9678, 9684, 9690, 9696, 9702, 9708, 9714, 9720, 9726, 9732, 9738, 9744, 9750, 9756, 9762, 9768,
       9774, 9780, 9786, 9792, 9798, 9804, 9810, 9816, 9822, 9828, 9834, 9840, 9846, 9852, 9858, 9864,
       9870, 9876, 9882, 9888, 9894, 9900, 9906, 9912, 9918, 9924, 9930, 9936, 9942, 9948, 9954, 9960 >>,
     M_sag |-> <<
       220348, 215199, 210344, 205766, 201449, 200754, 196726, 192927, 189340, 185951, 182743, 179704, 176818, 174074, 171460, 168964,
       166575, 164283, 162081, 159961, 157919, 155948, 154045, 152207, 150433, 148721, 147073, 145488, 143968, 142516, 141131, 139821,
       138587, 137433, 136364, 135385, 134502, 133719, 133044, 132483, 132042, 131731, 131557, 131529, 131656, 131948, 132413, 133066,
       133915, 134971, 136247, 137754, 139503, 141504, 143762, 146284, 149072, 152122, 155425, 158964, 162714, 166640, 170696, 174824,
       178959, 183029, 186960, 190675, 194104, 197186, 199873, 202130, 203935, 205283, 206179, 206642, 206693, 206364, 205685, 204691,
       203414, 201886, 200138, 198198, 196094, 193851, 191493, 189046, 186532, 183973, 181391, 178805, 176233, 173695, 171209, 168791,
       166454, 164213, 162082, 160072, 158196, 156466, 154895, 153494, 152274, 151246, 150424, 149821, 149451, 149330, 149476, 149909,
       150647, 151716, 153142, 154958, 157198, 159901, 163115, 166895, 171302, 176414, 182319, 189125, 196964, 205992, 216309, 227824,
       240330, 253711, 267851, 282633, 297944, 313678, 329738, 346038, 362506, 379079, 395706, 412343, 428960, 445519, 461969, 478249,
       494306, 510091, 525562, 540677, 555399, 569697, 583550, 596941, 609860, 622304, 634272, 645771, 656804, 667384, 677521, 687227,
       696515, 705398, 713887, 721994, 729734, 737117, 744157, 750868, 757261, 763350, 769146, 774664, 779913, 784908, 789656, 794169,
       798459, 802533, 806401, 810071, 813553, 816853, 819979, 822937, 825733, 828372, 830859, 833199, 835395, 837452, 839370, 841154,
       842803, 844318, 845700, 846946, 848057, 849030, 849864, 850554, 851100, 851496, 851743, 851838, 851783, 851579, 851231, 850744,
       850129, 849400, 848569, 847657, 846683, 845669, 844639, 843613, 842614, 841659, 840765, 839943, 839202, 838547, 837979, 837496,
       837092, 836758, 836484, 836258, 836067, 835895, 835726, 835543, 835327, 835055, 834702, 834242, 833643, 832865, 831865, 830587,
       828967, 826926, 824368, 821181, 817230, 812359, 806392, 799141, 790417, 780044, 767889, 753951, 738629, 722437, 705691, 688634,
       671454, 654292, 637259, 620438, 603886, 587648, 571751, 556214, 541050, 526271, 511898, 497998, 484643, 471886, 459771, 448340,
       437631, 427682, 418536, 410236, 402835, 396395, 390991, 386714, 383679, 382026, 381935, 383557, 386866, 391652, 397754, 405000,
       413199, 422145, 431639, 441484, 451503, 461533, 471423, 481036, 490243, 498914, 506913, 514065, 520156, 524950, 528184, 529570,
       528820, 525749, 520639, 513968, 506070, 497225, 487659, 477565, 467091, 456360, 445461, 434465, 423420, 412357, 401293, 390234,
       379190, 368216, 357383, 346740, 336328, 326178, 316312, 306771, 297614, 288837, 280431, 272385, 264692, 257337, 250308, 243597,
       237190, 231076, 225243, 219680, 214378, 209323, 204509, 199930, 195574, 191432, 187493, 183748, 180187, 176798, 173576, 170512,
       167596, 164824, 162188, 159681, 157297, 155030, 152873, 150823, 148873, 147018, 145254, 143577, 141982, 140464, 139023, 137649,
       136344, 135103, 133922, 132800, 131732, 130717, 129751, 128833, 127959, 127128, 126339, 125586, 124870, 124199, 123587, 123053,
       122614, 122286, 122089, 122037, 122149, 122444, 122947, 123679, 124672, 125958, 127579, 129583, 132026, 134987, 138564, 142878,
       148091, 154424, 162183, 171810, 183878, 198479, 215290, 233917, 253896, 274763, 296098, 317553, 338860, 359825, 380318, 400262,
       419621, 438393, 456612, 474341, 491597, 508361, 524608, 540310, 555440, 569977, 583911, 597238, 609966, 622108, 633683, 644711,
       655220, 665236, 674787, 683898, 692597, 700909, 708856, 716460, 723740, 730713, 737391, 743791, 749922, 755793, 761416, 766800,
       771952, 776879, 781590, 786093, 790395, 794501, 798418, 802153, 805712, 809100, 812323, 815385, 818290, 821042, 823646, 826100,
       828410, 830577, 832605, 834489, 836229, 837825, 839275, 840574, 841715, 842692, 843495, 844114, 844537, 844751, 844739, 844484,
       843971, 843183, 842109, 840739, 839071, 837111, 834878, 832402, 829730, 826918, 824039, 821176, 818422, 815871, 813612, 811728,
       810285, 809326, 808870, 808913, 809421, 810344, 811612, 813154, 814900, 816785, 818757, 820774, 822807, 824840, 826863, 828870,
       830856, 832820, 834759, 836670, 838545, 840382, 842173, 843910, 845588, 847202, 848749, 850225, 851629, 852961, 854222, 855416,
       856538, 857592, 858578, 859498, 860353, 861145, 861874, 862543, 863152, 863702, 864194, 864632, 865016, 865349, 865634, 865874,
       866072, 866231, 866357, 866454, 866527, 866581, 866620, 866649, 866673, 866697, 866721, 866750, 866785, 866828, 866878, 866936,
       867000, 867068, 867140, 867212, 867278, 867338, 867387, 867420, 867432, 867417, 867366, 867274, 867130, 866920, 866630, 866241,
       865724, 865047, 864167, 863022, 861531, 859580, 857020, 853637, 849142, 843151, 835179, 824662, 811040, 794089, 774782, 754089,
       732630, 710828, 688977, 667280, 645875, 624855, 604276, 584159, 564499, 545264, 526413, 508016, 490080, 472675, 455867, 439688,
       424151, 409256, 394993, 381352, 368314, 355861, 343974, 332630, 321810, 311494, 301676, 292337, 283457, 275012, 266980, 259343,
       252089, 245210, 238693, 232525, 226694, 221187, 215991, 211089, 206469, 202114, 198008, 194136, 190481, 187030, 183763, 180671,
       177737, 174949, 172294, 169761, 167338, 165015, 162785, 160640, 158573, 156580, 154654, 152795, 151000, 149268, 147598, 145992,
       144451, 142976, 141572, 140240, 138980, 137800, 136703, 135695, 134780, 133964, 133253, 132655, 132176, 131823, 131604, 131528,
       131605, 131843, 132254, 132846, 133632, 134622, 135828, 137260, 138931, 140848, 143024, 145462, 148166, 151134, 154359, 157827,
       161515, 165391, 169411, 173524, 177666, 181766, 185751, 189544, 193073, 196274, 199092, 201490, 203439, 204932, 205970, 206567,
       206746, 206534, 205962, 205063, 203872, 202419, 200739, 198856, 196801, 194598, 192273, 189852, 187357, 184810, 182231, 179645,
       177066, 174515, 172010, 169568, 167202, 164928, 162759, 160708, 158789, 157013, 155390, 153932, 152651, 151560, 150670, 149995,
       149549, 149348, 149408, 149746, 150384, 151345, 152654, 154343, 156443, 158993, 162038, 165629, 169827, 174704, 180345, 186850,
       194340, 202970, 212871, 224028, 236231, 249344, 263254, 277845, 292998, 308608, 324574, 340806, 357229, 373776, 390391, 407028,
       423655, 440237, 456731, 473071, 489204, 505082, 520659, 535892, 550744, 565180, 579178, 592717, 605788, 618383, 630503, 642152,
       653333, 664056, 674334, 684176, 693596, 702606, 711219, 719446, 727301, 734796, 741945, 748759, 755252, 761437, 767325, 772931,
       778265, 783338, 788162, 792749, 797108, 801249, 805182, 808915, 812456, 815813, 818994, 822004, 824851, 827540, 830075, 832463,
       834707, 836808, 838771, 840598, 842290, 843847, 845271, 846561, 847716, 848733, 849610, 850348, 850940, 851384, 851679, 851822,
       851814, 851658, 851352, 850909, 850333, 849637, 848837, 847950, 846994, 845991, 844964, 843935, 842925, 841954, 841038, 840192,
       839425, 838742, 838147, 837636, 837207, 836852, 836560, 836321, 836120, 835943, 835775, 835598, 835394, 835142, 834819, 834396,
       833844, 833126, 832203, 831019, 829516, 827618, 825236, 822263, 818572, 814013, 808414, 801593, 793359, 783529, 771951, 758561,
       743613, 727658, 711059, 694081, 676923, 659744, 642661, 625766, 609124, 592784, 576776, 561123, 545839, 530935, 516428, 502368,
       488832, 475878, 463555, 451902, 440959, 430764, 421357, 412782, 405089, 398337, 392594, 387948, 384504, 382394, 381784, 382850,
       385643, 389975, 395674, 402576, 410492, 419222, 428563, 438315, 448297, 458339, 468288, 478003, 487351, 496206, 504436, 511880,
       518333, 523567, 527327, 529334, 529294, 526963, 522441, 516229, 508689, 500117, 490759, 480815, 470448, 459787, 448933, 437962,
       426928, 415868, 404804, 393743, 382692, 371688, 360805, 350098, 339610, 329374, 319415, 309762, 300483, 291586, 283064, 274904,
       267100, 259639, 252508, 245698, 239196, 232991, 227071, 221424, 216039, 210906, 206016, 201363, 196938, 192730, 188728, 184922,
       181301, 177858, 174584, 171471, 168510, 165695, 163016, 160469, 158047, 155743, 153550, 151465, 149484, 147599, 145807, 144102,
       142480, 140938, 139474, 138081, 136755, 135493, 134294, 133153, 132067, 131035, 130054, 129121, 128233, 127389, 126587, 125822,
       125098, 124412, 123779, 123218, 122747, 122383, 122142, 122041, 122099, 122333, 122767, 123424, 124331, 125521, 127030, 128905,
       131201, 133988, 137357, 141420, 146327, 152276, 159541, 168514, 179752, 193581, 209726, 227823, 247423, 268057, 289285, 310734,
       332112, 353203, 373858, 393984, 413530, 432486, 450875, 468754, 486163, 503086, 519501, 535378, 550690, 565417, 579543, 593063,
       605980, 618306, 630058, 641257, 651929, 662099, 671794, 681042, 689870, 698303, 706365, 714076, 721459, 728527, 735297, 741785,
       747999, 753954, 759657, 765116, 770341, 775340, 780120, 784688, 789051, 793218, 797195, 800989, 804604, 808046, 811320, 814432,
       817387, 820187, 822837, 825339, 827697, 829911, 831981, 833910, 835698, 837342, 838838, 840185, 841376, 842405, 843265, 843944,
       844431, 844713, 844774, 844598, 844168, 843469, 842485, 841210, 839636, 837770, 835622, 833219, 830603, 827828, 824961, 822083,
       819285, 816659, 814297, 812285, 810695, 809577, 808960, 808846, 809212, 810009, 811173, 812636, 814324, 816170, 818119, 819788,
       821818, 823852, 825881, 827896, 829891, 831866, 833818, 835744, 837637, 839494, 841308, 843072, 844779, 846425, 848004, 849516,
       850956, 852324, 853620, 854844, 856002, 857088, 858108, 859060, 859946, 860769, 861528, 862226, 862863, 863441, 863961, 864426,
       864837, 865194, 865502, 865763, 865981, 866158, 866299, 866411, 866495, 866558, 866604, 866637, 866663, 866687, 866711, 866737,
       866769, 866808, 866854, 866909, 866970, 867036, 867107, 867179, 867248, 867312, 867367, 867409, 867432, 867431, 867398, 867328,
       867211, 867035, 866787, 866447, 865995, 865401, 864625, 863617, 862306, 860595, 858353, 855400, 851485, 846273, 839330, 830121,
       818070, 802695, 784375, 764261, 743111, 721433, 699575, 677781, 656221, 635006, 614208, 593865, 573985, 554550, 535517, 516884,
       498724, 481049, 463944, 447457, 431608, 416402, 401834, 387892, 374562, 361828, 349669, 338065, 326994, 316436, 306375, 296807,
       287708, 279055, 270826, 262999, 255561, 248501, 241810, 235474, 229482, 223821, 218476, 213434, 208680, 204197, 199970, 195986,
       192229, 188682, 185329, 182155, 179145, 176289, 173571, 170980, 168505, 166135, 163860, 161673, 159568, 157540, 155582, 153691,
       151865, 150103, 148403, 146767, 145194, 143687, 142247, 140879, 139583, 138363, 137225, 136173, 135211, 134346, 133583, 132929,
       132391, 131977, 131692, 131548, 131550, 131709, 132033, 132534, 133224, 134113, 135211, 136532, 138084, 139881, 141930, 144239,
       146813, 149653, 152754, 156106, 159690, 163478, 167434, 171508, 175644, 179774, 183824, 187718, 191384, 194751, 197762, 200368,
       202536, 204252, 205510, 206320, 206699, 206673, 206271, 205527, 204474, 203146, 201572, 199784, 197809, 195674, 193407, 191030,
       188568, 186043, 183478, 180893, 178308, 175741, 173212, 170737, 168332, 166012, 163790, 161681, 159696, 157848, 156149, 154610,
       153241, 152057, 151068, 150288, 149729, 149406, 149337, 149537, 150027, 150828, 151964, 153465, 155360, 157686, 160484, 163803,
       167698, 172235, 177492, 183564, 190558, 198614, 207888, 218452, 230172, 242855, 256391, 270664, 285557, 300957, 316761, 332874,
       349213, 365707, 382295, 398927, 415563, 432172, 448717, 465140, 481380, 497388, 513117, 528522, 543563, 558205, 572419, 586184,
       599483, 612311, 624662, 636539, 647948, 658893, 669386, 679438, 689062, 698270, 707075, 715488, 723523, 731191, 738506, 745482,
       752129, 758462, 764494, 770236, 775700, 780900, 785845, 790547, 795016, 799264, 803298, 807127, 810761, 814208, 817475, 820567 >>,
     W_sag |-> <<
       94436, 92229, 90148, 88186, 86335, 86037, 84310, 82682, 81145, 79692, 78318, 77016, 75779, 74603, 73483, 72413,
       71388, 70407, 69462, 68553, 67678, 66833, 66017, 65230, 64469, 63736, 63029, 62350, 61699, 61076, 60483, 59922,
       59392, 58897, 58438, 58019, 57640, 57304, 57015, 56774, 56585, 56452, 56377, 56366, 56420, 56546, 56746, 57025,
       57389, 57842, 58389, 59035, 59783, 60638, 61607, 62688, 63883, 65190, 66607, 68125, 69732, 71415, 73153, 74922,
       76694, 78439, 80124, 81717, 83186, 84508, 85660, 86627, 87400, 87978, 88362, 88559, 88582, 88441, 88150, 87724,
       87177, 86522, 85772, 84940, 84038, 83077, 82067, 81020, 79942, 78845, 77738, 76628, 75526, 74439, 73373, 72337,
       71335, 70374, 69460, 68599, 67796, 67055, 66383, 65783, 65259, 64819, 64467, 64209, 64050, 63999, 64062, 64248,
       64564, 65021, 65633, 66411, 67370, 68529, 69907, 71526, 73416, 75606, 78137, 81054, 84413, 88282, 92703, 97639,
       102999, 108733, 114793, 121129, 127690, 134433, 141315, 148301, 155359, 162461, 169587, 176718, 183840, 190937, 197988, 204965,
       211846, 218611, 225241, 231718, 238027, 244155, 250092, 255831, 261368, 266701, 271830, 276757, 281486, 286020, 290364, 294525,
       298506, 302313, 305951, 309425, 312742, 315906, 318924, 321800, 324539, 327149, 329634, 331998, 334247, 336386, 338421, 340355,
       342193, 343939, 345596, 347170, 348662, 350077, 351415, 352681, 353881, 355012, 356078, 357082, 358023, 358904, 359727, 360491,
       361198, 361847, 362440, 362974, 363450, 363867, 364224, 364520, 364754, 364925, 365031, 365072, 365049, 364962, 364813, 364604,
       364340, 364027, 363670, 363279, 362862, 362428, 361986, 361546, 361118, 360708, 360324, 359973, 359658, 359379, 359136, 358929,
       358756, 358613, 358495, 358399, 358317, 358244, 358172, 358093, 358000, 357882, 357729, 357531, 357273, 356939, 356510, 355962,
       355268, 354394, 353298, 351933, 350239, 348152, 345595, 342488, 338750, 334304, 329095, 323121, 316553, 309614, 302437, 295127,
       287765, 280410, 273111, 265902, 258809, 251849, 245036, 238377, 231879, 225545, 219386, 213429, 207704, 202236, 197046, 192148,
       187558, 183294, 179373, 175816, 172645, 169886, 167569, 165736, 164436, 163728, 163689, 164383, 165802, 167853, 170468, 173574,
       177088, 180923, 184991, 189210, 193504, 197802, 202041, 206161, 210106, 213822, 217249, 220314, 222924, 224979, 226366, 226961,
       226640, 225324, 223133, 220274, 216890, 213098, 209000, 204674, 200185, 195586, 190916, 186204, 181470, 176730, 171990, 167250,
       162517, 157814, 153170, 148609, 144148, 139797, 135569, 131480, 127555, 123793, 120190, 116742, 113444, 110293, 107281, 104404,
       101658, 99038, 96538, 94153, 91882, 89715, 87652, 85690, 83823, 82047, 80358, 78753, 77226, 75774, 74394, 73080,
       71830, 70642, 69513, 68439, 67417, 66445, 65521, 64642, 63806, 63011, 62255, 61538, 60854, 60203, 59584, 58996,
       58437, 57904, 57398, 56916, 56458, 56023, 55609, 55216, 54841, 54484, 54145, 53823, 53517, 53230, 52967, 52736,
       52548, 52407, 52322, 52299, 52347, 52474, 52689, 53004, 53430, 53981, 54674, 55531, 56579, 57850, 59382, 61232,
       63466, 66181, 69507, 73634, 78805, 85061, 92266, 100248, 108811, 117755, 126897, 136091, 145223, 154208, 162991, 171538,
       179833, 187878, 195686, 203285, 210681, 217865, 224828, 231558, 238041, 244272, 250243, 255955, 261412, 266617, 271577, 276304,
       280810, 285103, 289196, 293100, 296829, 300391, 303797, 307055, 310175, 313163, 316026, 318768, 321395, 323912, 326321, 328629,
       330837, 332949, 334968, 336898, 338741, 340501, 342180, 343782, 345306, 346758, 348138, 349451, 350696, 351875, 352991, 354044,
       355035, 355964, 356832, 357639, 358386, 359070, 359691, 360247, 360736, 361156, 361500, 361766, 361947, 362039, 362034, 361923,
       361703, 361365, 360905, 360317, 359603, 358764, 357807, 356746, 355600, 354394, 353160, 351934, 350753, 349659, 348691, 347884,
       347265, 346853, 346660, 346677, 346894, 347289, 347833, 348494, 349242, 350050, 350895, 351760, 352630, 353500, 354367, 355227,
       356079, 356921, 357752, 358571, 359375, 360163, 360930, 361674, 362393, 363084, 363747, 364380, 364983, 365555, 366096, 366607,
       367088, 367539, 367961, 368356, 368722, 369061, 369373, 369660, 369921, 370157, 370369, 370557, 370722, 370864, 370987, 371089,
       371173, 371242, 371296, 371337, 371369, 371392, 371409, 371421, 371433, 371445, 371457, 371469, 371484, 371502, 371524, 371548,
       371576, 371606, 371636, 371666, 371696, 371720, 371741, 371755, 371760, 371753, 371732, 371693, 371631, 371541, 371417, 371249,
       371028, 370738, 370361, 369871, 369231, 368395, 367297, 365846, 363919, 361352, 357937, 353428, 347589, 340324, 332050, 323181,
       313984, 304640, 295275, 285976, 276803, 267794, 258975, 250353, 241927, 233684, 225604, 217719, 210031, 202571, 195367, 188433,
       181774, 175390, 169279, 163433, 157844, 152507, 147412, 142551, 137913, 133491, 129284, 125282, 121476, 117855, 114413, 111141,
       108033, 105085, 102292, 99649, 97151, 94791, 92564, 90463, 88483, 86616, 84856, 83197, 81631, 80152, 78753, 77427,
       76170, 74975, 73838, 72752, 71714, 70719, 69762, 68841, 67956, 67101, 66277, 65480, 64711, 63968, 63253, 62564,
       61904, 61272, 60670, 60098, 59558, 59051, 58580, 58148, 57756, 57407, 57103, 56847, 56642, 56491, 56398, 56366,
       56399, 56501, 56676, 56930, 57267, 57690, 58207, 58821, 59538, 60363, 61296, 62341, 63500, 64772, 66155, 67642,
       69222, 70884, 72607, 74370, 76145, 77903, 79611, 81236, 82748, 84120, 85328, 86355, 87191, 87830, 88275, 88531,
       88607, 88515, 88269, 87884, 87373, 86752, 86032, 85225, 84344, 83400, 82404, 81366, 80297, 79205, 78099, 76989,
       75883, 74790, 73717, 72670, 71658, 70684, 69754, 68875, 68052, 67290, 66594, 65970, 65421, 64954, 64573, 64283,
       64092, 64005, 64030, 64175, 64448, 64862, 65423, 66146, 67045, 68138, 69442, 70982, 72781, 74871, 77287, 80075,
       83285, 86984, 91228, 96011, 101242, 106863, 112823, 119075, 125570, 132261, 139103, 146059, 153096, 160187, 167308, 174439,
       181565, 188671, 195739, 202741, 209655, 216460, 223136, 229665, 236031, 242219, 248218, 254021, 259624, 265022, 270217, 275208,
       279999, 284595, 288999, 293217, 297253, 301115, 304806, 308331, 311698, 314910, 317976, 320898, 323680, 326331, 328854, 331256,
       333542, 335717, 337784, 339751, 341619, 343395, 345081, 346680, 348198, 349637, 350999, 352289, 353508, 354660, 355747, 356770,
       357731, 358632, 359473, 360255, 360980, 361647, 362258, 362811, 363306, 363743, 364120, 364435, 364689, 364879, 365006, 365068,
       365065, 364997, 364867, 364676, 364430, 364132, 363789, 363408, 362998, 362569, 362128, 361686, 361253, 360836, 360445, 360082,
       359755, 359464, 359209, 358990, 358807, 358654, 358528, 358425, 358339, 358264, 358192, 358117, 358029, 357921, 357780, 357599,
       357363, 357056, 356661, 356154, 355510, 354696, 353675, 352401, 350817, 348861, 346461, 343537, 340007, 335793, 330832, 325094,
       318687, 311849, 304735, 297458, 290106, 282744, 275422, 268181, 261049, 254046, 247186, 240477, 233928, 227541, 221323, 215298,
       209497, 203946, 198664, 193669, 188979, 184609, 180578, 176902, 173606, 170712, 168251, 166260, 164783, 163878, 163617, 164074,
       165270, 167126, 169568, 172526, 175920, 179661, 183664, 187844, 192123, 196427, 200691, 204855, 208863, 212659, 216184, 219374,
       222139, 224383, 225996, 226856, 226838, 225837, 223900, 221237, 218006, 214333, 210322, 206059, 201615, 197047, 192396, 187695,
       182967, 178228, 173488, 168748, 164011, 159294, 154629, 150040, 145545, 141158, 136890, 132753, 128777, 124964, 121311, 117815,
       114471, 111273, 108218, 105299, 102513, 99853, 97315, 94895, 92588, 90389, 88293, 86299, 84402, 82599, 80884, 79253,
       77702, 76226, 74822, 73488, 72219, 71012, 69864, 68772, 67734, 66747, 65808, 64915, 64065, 63258, 62490, 61761,
       61068, 60406, 59778, 59180, 58611, 58071, 57556, 57067, 56602, 56160, 55739, 55339, 54958, 54595, 54250, 53923,
       53612, 53318, 53047, 52806, 52605, 52449, 52346, 52302, 52326, 52426, 52612, 52893, 53282, 53792, 54440, 55243,
       56227, 57423, 58867, 60608, 62710, 65258, 68371, 72217, 77034, 82960, 89879, 97635, 106036, 114878, 123976, 133168,
       142331, 151370, 160223, 168848, 177227, 185350, 193232, 200894, 208355, 215608, 222643, 229448, 236011, 242322, 248376, 254171,
       259706, 264989, 270026, 274826, 279399, 283757, 287912, 291876, 295660, 299274, 302729, 306035, 309198, 312227, 315128, 317908,
       320572, 323125, 325570, 327910, 330149, 332291, 334340, 336297, 338167, 339952, 341656, 343282, 344830, 346306, 347710, 349043,
       350309, 351510, 352646, 353718, 354728, 355677, 356564, 357391, 358156, 358860, 359501, 360078, 360588, 361031, 361399, 361690,
       361899, 362019, 362045, 361970, 361786, 361486, 361065, 360519, 359844, 359043, 358123, 357094, 355973, 354783, 353554, 352321,
       351122, 349995, 348983, 348120, 347438, 346959, 346695, 346647, 346803, 347145, 347643, 348270, 348994, 349786, 350622, 351338,
       352207, 353077, 353947, 354810, 355665, 356511, 357348, 358173, 358985, 359781, 360558, 361314, 362046, 362751, 363428, 364076,
       364693, 365279, 365835, 366361, 366857, 367323, 367760, 368168, 368547, 368900, 369225, 369524, 369797, 370045, 370268, 370468,
       370644, 370797, 370929, 371040, 371133, 371209, 371270, 371317, 371353, 371380, 371400, 371414, 371426, 371438, 371450, 371462,
       371474, 371492, 371511, 371535, 371560, 371590, 371620, 371650, 371680, 371707, 371731, 371748, 371758, 371757, 371744, 371714,
       371664, 371588, 371483, 371338, 371144, 370890, 370556, 370125, 369562, 368829, 367868, 366603, 364925, 362692, 359716, 355769,
       350604, 344016, 336165, 327544, 318480, 309190, 299822, 290482, 281240, 272147, 263234, 254516, 245996, 237665, 229508, 221524,
       213741, 206166, 198836, 191771, 184978, 178461, 172218, 166244, 160532, 155075, 149864, 144890, 140146, 135622, 131309, 127208,
       123308, 119600, 116074, 112720, 109532, 106506, 103637, 100922, 98354, 95927, 93636, 91476, 89438, 87517, 85708, 84000,
       82389, 80867, 79430, 78068, 76778, 75554, 74389, 73278, 72217, 71201, 70226, 69287, 68384, 67515, 66676, 65866,
       65083, 64328, 63599, 62897, 62224, 61578, 60961, 60374, 59819, 59295, 58806, 58354, 57943, 57572, 57245, 56965,
       56734, 56557, 56435, 56372, 56373, 56440, 56578, 56794, 57090, 57471, 57942, 58508, 59174, 59945, 60824, 61814,
       62917, 64134, 65463, 66900, 68435, 70059, 71755, 73502, 75274, 77043, 78779, 80449, 82021, 83464, 84753, 85871,
       86801, 87536, 88075, 88422, 88586, 88575, 88403, 88085, 87634, 87064, 86390, 85623, 84777, 83862, 82890, 81871,
       80815, 79733, 78633, 77524, 76416, 75317, 74234, 73173, 72144, 71151, 70198, 69294, 68443, 67651, 66922, 66262,
       65675, 65167, 64743, 64409, 64169, 64031, 64001, 64087, 64297, 64640, 65127, 65770, 66583, 67580, 68780, 70203,
       71872, 73817, 76071, 78672, 81669, 85122, 89096, 93624, 98647, 104084, 109885, 116002, 122385, 128985, 135758, 142665,
       149666, 156735, 163845, 170973, 178103, 185222, 192311, 199348, 206308, 213169, 219909, 226511, 232958, 239231, 245323, 251223,
       256923, 262420, 267713, 272802, 277691, 282381, 286878, 291186, 295311, 299257, 303031, 306637, 310081, 313368, 316503, 319491,
       322340, 325055, 327641, 330102, 332443, 334672, 336793, 338808, 340723, 342543, 344271, 345912, 347469, 348946, 350345, 351671 >>,
     M_cu_sag |-> <<
       2895696, 2832771, 2773417, 2717430, 2664592, 2656076, 2606620, 2559802, 2515366, 2473040, 2432542, 2393566, 2355775, 2318784, 2282137, 2245284,
       2207560, 2168153, 2126103, 2080360, 2029922, 1974240, 1914759, 1853381, 1791336, 1729443, 1668262, 1608417, 1551155, 1496503, 1444351, 1394598,
       1347149, 1301918, 1258823, 1217792, 1178758, 1141658, 1106437, 1073044, 1041432, 1011563, 983399, 956908, 932061, 908837, 887216, 867182,
       848722, 831829, 816494, 802758, 790760, 780653, 772597, 766760, 763316, 762444, 764320, 769114, 776972, 788007, 802279, 819770,
       840369, 863846, 889839, 917853, 947260, 977317, 1007203, 1036061, 1063017, 1087226, 1108014, 1124923, 1137710, 1146339, 1150930, 1151678,
       1148861, 1142820, 1133932, 1122586, 1109165, 1094040, 1077561, 1060057, 1041835, 1023183, 1004367, 985643, 967254, 949441, 932447, 916526,
       901955, 889051, 878195, 869871, 864717, 863599, 867325, 876299, 890849, 911122, 937047, 968361, 1004678, 1045571, 1090661, 1139671,
       1192463, 1249043, 1309567, 1374323, 1443726, 1518315, 1598746, 1685812, 1780451, 1883776, 1997107, 2122031, 2260472, 2414723, 2586241, 2773755,
       2974380, 3186442, 3408325, 3638386, 3875034, 4116773, 4362254, 4610281, 4859823, 5110011, 5360126, 5609588, 5857937, 6104691, 6349120, 6590361,
       6827697, 7060448, 7287965, 7509642, 7724935, 7933373, 8134558, 8328166, 8513933, 8691639, 8861082, 9022049, 9174274, 9317399, 9450913, 9574082,
       9685866, 9784791, 9868810, 9935120, 9979984, 9998602, 9985159, 9933233, 9836755, 9691981, 9506887, 9295447, 9067056, 8828196, 8583484, 8336284,
       8090225, 7853442, 7626794, 7409855, 7202216, 7003484, 6813280, 6631240, 6457012, 6290260, 6130660, 5977899, 5831674, 5691699, 5557695, 5429390,
       5306528, 5188856, 5076135, 4968128, 4864650, 4765801, 4671758, 4582625, 4498449, 4419212, 4344832, 4275162, 4209988, 4149027, 4091928, 4038272,
       3987586, 3939349, 3893006, 3847993, 3803753, 3759761, 3715542, 3670693, 3624892, 3577904, 3529692, 3482733, 3437969, 3395328, 3354732, 3316095,
       3279327, 3244333, 3211014, 3179271, 3149001, 3120101, 3092465, 3065987, 3040558, 3016062, 2992379, 2969380, 2946925, 2924858, 2903002, 2881154,
       2859251, 2837681, 2816838, 2797029, 2778472, 2761291, 2745508, 2731056, 2717782, 2705497, 2694066, 2683962, 2678312, 2682086, 2695812, 2717067,
       2742856, 2770200, 2796658, 2820575, 2841051, 2857771, 2870803, 2880448, 2887133, 2891350, 2893682, 2894959, 2896092, 2897883, 2901099, 2906491,
       2914816, 2926852, 2943426, 2965434, 2993873, 3029876, 3074757, 3130063, 3197650, 3279776, 3379199, 3498297, 3636913, 3792193, 3962076, 4144279,
       4336194, 4535072, 4738165, 4942855, 5146711, 5347511, 5543229, 5731997, 5912045, 6081624, 6238838, 6381332, 6506185, 6610168, 6689654, 6740712,
       6759403, 6743300, 6696485, 6625768, 6535897, 6430813, 6313748, 6187307, 6053535, 5913995, 5769830, 5621813, 5470405, 5315814, 5158070, 4997117,
       4833029, 4666576, 4498956, 4331851, 4166876, 4005111, 3847316, 3694099, 3546008, 3403180, 3265672, 3133480, 3006568, 2884866, 2768279, 2656696,
       2549994, 2448036, 2350682, 2257781, 2169183, 2084729, 2004281, 1927724, 1854876, 1785550, 1719560, 1656715, 1596830, 1539715, 1485186, 1433062,
       1383167, 1335334, 1289408, 1245280, 1203156, 1163015, 1124761, 1088304, 1053555, 1020434, 988864, 958767, 930075, 902720, 876639, 851771,
       828058, 805444, 783878, 763311, 743696, 724987, 707142, 690118, 673878, 658385, 643606, 629505, 616052, 603237, 591090, 579643,
       568924, 558963, 549791, 541468, 534160, 528067, 523423, 520507, 519675, 521384, 526257, 535151, 549297, 570536, 601728, 647559,
       713942, 802506, 903753, 1017772, 1146176, 1290781, 1453631, 1637025, 1843555, 2076143, 2338074, 2633051, 2965243, 3336965, 3711687, 4074835,
       4425849, 4764710, 5091886, 5408248, 5714234, 6009845, 6295016, 6569613, 6833496, 7086580, 7328873, 7560487, 7781643, 7992634, 8193825, 8385628,
       8568484, 8742849, 8909188, 9067957, 9219591, 9364505, 9503082, 9635671, 9762584, 9884099, 10000456, 10111867, 10218518, 10320571, 10418175, 10511460,
       10600542, 10685532, 10766532, 10843637, 10916933, 10986498, 11052395, 11114682, 11173400, 11228582, 11280245, 11328401, 11373037, 11414138, 11451673, 11485604,
       11515885, 11542463, 11565287, 11584305, 11599476, 11610762, 11618145, 11621619, 11621200, 11616914, 11608804, 11596914, 11581296, 11561992, 11539024, 11512396,
       11482087, 11448052, 11410231, 11368558, 11322991, 11273523, 11220208, 11163174, 11102625, 11038824, 10972056, 10902556, 10830407, 10755405, 10676884, 10593529,
       10503177, 10402657, 10287734, 10153261, 9993666, 9805147, 9592656, 9362833, 9120787, 8870618, 8615642, 8358544, 8103013, 7858023, 7624337, 7401477,
       7188976, 6986372, 6793202, 6609006, 6433328, 6265725, 6105772, 5953062, 5807216, 5667879, 5534725, 5407449, 5285769, 5169420, 5058154, 4951738,
       4849952, 4752587, 4659442, 4570326, 4485056, 4403540, 4326309, 4254138, 4187789, 4128046, 4075767, 4031917, 3997632, 3974290, 3963622, 3967853,
       3989935, 4033885, 4105379, 4211220, 4351835, 4523599, 4721596, 4940122, 5173391, 5416088, 5663673, 5912476, 6159659, 6403107, 6641279, 6873097,
       7097825, 7314983, 7524282, 7725573, 7918805, 8104006, 8281256, 8450671, 8612403, 8766614, 8913485, 9053198, 9185924, 9311816, 9430993, 9543522,
       9649376, 9748409, 9840303, 9924496, 10000088, 10065720, 10119393, 10158248, 10178299, 10174175, 10139009, 10064787, 9943514, 9771975, 9563958, 9333295,
       9088884, 8836831, 8581411, 8325643, 8071647, 7820868, 7574224, 7332187, 7094847, 6861956, 6633062, 6409385, 6191155, 5979217, 5774445, 5577255,
       5387811, 5206125, 5032109, 4865606, 4706422, 4554336, 4409108, 4270494, 4138244, 4012113, 3892036, 3777818, 3669170, 3565821, 3467511, 3374013,
       3285206, 3200971, 3121185, 3045704, 2974371, 2907016, 2843459, 2783509, 2726960, 2673596, 2623190, 2575504, 2530286, 2487270, 2446174, 2406703,
       2368532, 2331289, 2294546, 2257786, 2220384, 2181575, 2140444, 2095962, 2047084, 1993012, 1934465, 1873508, 1811547, 1749512, 1688034, 1627591,
       1569456, 1513968, 1461015, 1410493, 1362305, 1316362, 1272581, 1230888, 1191214, 1153495, 1117672, 1083693, 1051509, 1021081, 992367, 965338,
       939964, 916219, 894083, 873539, 854574, 837178, 821344, 807083, 794511, 783783, 775054, 768491, 764264, 762553, 763535, 767382,
       774252, 784270, 797512, 813989, 833621, 856218, 881462, 908901, 937947, 967891, 997929, 1027214, 1054876, 1080044, 1101982, 1120161,
       1134272, 1144215, 1150069, 1152011, 1150289, 1145232, 1137204, 1126596, 1113792, 1099168, 1083081, 1065865, 1047835, 1029285, 1010487, 991702,
       973177, 955152, 937868, 921572, 906537, 893062, 881504, 872309, 866059, 863547, 865674, 872931, 885678, 904125, 928269, 957902,
       992669, 1032148, 1075935, 1123715, 1175303, 1230662, 1289899, 1353260, 1421120, 1493980, 1572458, 1657304, 1749405, 1849815, 1959785, 2080805,
       2214684, 2363631, 2529575, 2712329, 2908964, 3117536, 3336451, 3564066, 3798765, 4039019, 4283430, 4530755, 4779910, 5029974, 5280181, 5529906,
       5778660, 6025987, 6271266, 6513612, 6752275, 6986570, 7215830, 7439438, 7656830, 7867510, 8071056, 8267120, 8455424, 8635731, 8807840, 8971541,
       9126593, 9272673, 9409325, 9535894, 9651451, 9754672, 9843712, 9916030, 9968205, 9995781, 9993244, 9954290, 9872597, 9743243, 9569257, 9365024,
       9141227, 8905135, 8661878, 8415170, 8167891, 7927786, 7697955, 7477967, 7267409, 7065881, 6873000, 6688397, 6511718, 6342618, 6180773, 6025866,
       5877590, 5735654, 5599775, 5469682, 5345113, 5225814, 5111540, 5002055, 4897139, 4796792, 4701200, 4610492, 4524733, 4443926, 4368009, 4296859,
       4230278, 4168009, 4109719, 4055014, 4003436, 3954477, 3907591, 3862215, 3817786, 3773769, 3729669, 3685059, 3639591, 3593001, 3545116, 3497443,
       3451987, 3408678, 3367439, 3328185, 3290831, 3255280, 3221438, 3189205, 3158476, 3129150, 3101122, 3074287, 3048535, 3023754, 2999826, 2976625,
       2954012, 2931839, 2909935, 2888107, 2866193, 2844469, 2823356, 2803187, 2784210, 2766579, 2750351, 2735484, 2721851, 2709265, 2697564, 2686874,
       2679243, 2679647, 2690438, 2709607, 2734294, 2761443, 2788404, 2813265, 2834900, 2852828, 2867013, 2877699, 2885275, 2890220, 2893076, 2894583,
       2895669, 2897162, 2899838, 2904450, 2911753, 2922515, 2937546, 2957715, 2983985, 3017443, 3059337, 3111133, 3174579, 3251790, 3345369, 3458030,
       3590703, 3740915, 3906363, 4084903, 4274011, 4470963, 4673001, 4877453, 5081822, 5283819, 5481361, 5672533, 5855544, 6028645, 6190019, 6337494,
       6468292, 6579287, 6666981, 6727519, 6756918, 6751872, 6713968, 6650302, 6566070, 6465453, 6351901, 6228208, 6096588, 5958753, 5815970, 5669125,
       5518772, 5365195, 5208470, 5048555, 4885437, 4719615, 4552233, 4384764, 4218981, 4056107, 3896990, 3742242, 3592502, 3447995, 3308795, 3174918,
       3046335, 2922988, 2804787, 2691628, 2583390, 2479941, 2381140, 2286841, 2196893, 2111139, 2029426, 1951651, 1877645, 1807220, 1740190, 1676366,
       1615559, 1557585, 1502255, 1449387, 1398802, 1350331, 1303815, 1259106, 1216331, 1175570, 1136726, 1099706, 1064424, 1030794, 998738, 968180,
       939050, 911278, 884799, 859551, 835477, 812519, 790627, 769747, 749832, 730839, 712723, 695442, 678957, 663231, 648228, 633914,
       620257, 607238, 594877, 583205, 572253, 562051, 552626, 544022, 536371, 529869, 524736, 521235, 519695, 520536, 524322, 531821,
       544128, 562857, 590478, 630981, 690295, 772694, 870179, 979964, 1103598, 1242830, 1399630, 1576211, 1775070, 1999016, 2251217, 2535236,
       2855087, 3215293, 3593482, 3960406, 4315311, 4658017, 4988838, 5308556, 5617855, 5916776, 6205293, 6483280, 6750591, 7007117, 7252837, 7487834,
       7712291, 7926483, 8130754, 8325501, 8511158, 8688178, 8857023, 9018154, 9172015, 9319026, 9459583, 9594044, 9722736, 9845943, 9963922, 10076888,
       10185037, 10288539, 10387547, 10482192, 10572598, 10658880, 10741138, 10819472, 10893974, 10964720, 11031779, 11095208, 11155056, 11211360, 11264140, 11313412,
       11359166, 11401396, 11440068, 11475150, 11506597, 11534359, 11558383, 11578617, 11595017, 11607542, 11616168, 11620886, 11621704, 11618643, 11611744, 11601052,
       11586616, 11568483, 11546685, 11521228, 11492100, 11459261, 11422655, 11382216, 11337893, 11289664, 11237564, 11181694, 11122235, 11059435, 10993580, 10924931,
       10853633, 10779586, 10702293, 10620670, 10532842, 10435972, 10326160, 10198518, 10047529, 9868172, 9662491, 9437586, 9198951, 8950981, 8697222, 8483422,
       8226114, 7975461, 7736349, 7508293, 7290825, 7083476, 6885784, 6697290, 6517534, 6346068, 6182455, 6026280, 5877149, 5734697, 5598582, 5468490,
       5344127, 5225222, 5111519, 5002778, 4898772, 4799287, 4704117, 4613067, 4525953, 4442599, 4363191, 4288470, 4219200, 4156152, 4100141, 4052072,
       4012991, 3984147, 3967086, 3963771, 3976765, 4009517, 4066804, 4155317, 4279456, 4436637, 4622583, 4831879, 5058697, 5297440, 5543164, 5791778,
       6040053, 6285539, 6526433, 6761444, 6989686, 7210566, 7423706, 7628896, 7826042, 8015136, 8196233, 8369434, 8534874, 8692714, 8843126, 8986293,
       9122391, 9251585, 9374012, 9489766, 9598870, 9701243, 9796655, 9884671, 9964573, 10035243, 10095017, 10141485, 10171241, 10179611, 10160454, 10106225,
       10008702, 9860996, 9668449, 9447444, 9208804, 8959832, 8705601, 8449688, 8194614, 7942129, 7693394, 7449087, 7209477, 6974473, 6743684, 6517247,
       6296381, 6081232, 5872909, 5672005, 5478792, 5293347, 5115624, 4945496, 4782786, 4627284, 4478758, 4336966, 4201657, 4072585, 3949570, 3832544,
       3721229, 3615342, 3514617, 3418805, 3327733, 3241294, 3159368, 3081818, 3008494, 2939231, 2873854, 2812179, 2754006, 2699123, 2647310, 2598335,
       2551951, 2507900, 2465908, 2425688, 2386932, 2349291, 2312367, 2275688, 2238685, 2200664, 2160781, 2118056, 2071431, 2019943, 1963304, 1903301,
       1841687, 1779594, 1717782, 1656770, 1597345, 1540587, 1486417, 1434727, 1385418, 1338395, 1293573, 1250875, 1210229, 1171567, 1134829, 1099959,
       1066908, 1035631, 1006089, 978245, 952070, 927536, 904621, 883306, 863576, 845419, 828826, 813792, 800379, 788735, 779014, 771376,
       765991, 763034, 762684, 765118, 770500, 778973, 790641, 805551, 823667, 844853, 868858, 895297, 923643, 953245, 983340, 1013096,
       1041655, 1068138, 1091723, 1111780, 1127891, 1139859, 1147681, 1151496, 1151517, 1148035, 1141403, 1132000, 1120214, 1106427, 1091007, 1074300,
       1056629, 1038298, 1019589, 1000767, 982086, 963788, 946113, 929306, 913623, 899348, 886811, 876407, 868645, 864204, 863984, 868706,
       878748, 894413, 915802, 942806, 975131, 1012374, 1054112, 1099980, 1149729, 1203249, 1260577, 1321894, 1387512, 1457872, 1533533, 1615181,
       1703633, 1799859, 1905006, 2020443, 2147815, 2289122, 2446650, 2621477, 2811699, 3014654, 3228737, 3452322, 3683773, 3921511, 4164068, 4410123,
       4658513, 4908242, 5158468, 5408500, 5657783, 5905872, 6152250, 6396132, 6636677, 6873184, 7104976, 7331411, 7551896, 7765901, 7972965, 8172706,
       8364816, 8549038, 8725157, 8892976, 9052270, 9202760, 9344059, 9475624, 9596667, 9706074, 9802272, 9883078, 9945522, 9985663, 9998492, 9978025,
       9917814, 9812029, 9658182, 9467008, 9251630, 9020757, 8780443, 8535019, 8287653, 8042887, 7808130, 7583423, 7368345, 7162488, 6965462, 6776891 >>,
     F_chancado |-> <<
       51855, 52273, 52691, 53098, 53482, 53543, 53888, 54191, 54443, 54640, 54775, 54846, 54854, 54799, 54685, 54516,
       54299, 54043, 53754, 53442, 53116, 52786, 52464, 52158, 51876, 51627, 51420, 51261, 51158, 51118, 51148, 51252,
       51437, 51707, 52069, 52529, 53090, 53762, 54550, 55462, 56503, 57681, 59006, 60486, 62130, 63946, 65945, 68136,
       70527, 73126, 75936, 78960, 82196, 85633, 89254, 93033, 96929, 100885, 104830, 108672, 112306, 115612, 118462, 120728,
       122295, 123070, 122998, 122064, 120301, 117781, 114615, 110934, 106878, 102590, 98195, 93806, 89513, 85386, 81475, 77814,
       74421, 71305, 68469, 65907, 63609, 61565, 59762, 58188, 56830, 55676, 54716, 53939, 53339, 52909, 52642, 52533,
       52580, 52781, 53136, 53647, 54316, 55147, 56147, 57321, 58682, 60240, 62010, 64005, 66247, 68756, 71559, 74685,
       78168, 82048, 86373, 91197, 96585, 102610, 109364, 116954, 125512, 135197, 146210, 158802, 173300, 189916, 207568, 223830,
       238963, 253377, 266957, 279647, 291431, 302330, 312391, 321667, 330219, 338105, 345374, 352063, 358200, 363802, 368878, 373431,
       377466, 380994, 384029, 386596, 388732, 390479, 391888, 393009, 393894, 394590, 395135, 395566, 395909, 396185, 396412, 396599,
       396755, 396885, 396996, 397089, 397166, 397229, 397281, 397319, 397346, 397363, 397371, 397368, 397355, 397332, 397299, 397254,
       397198, 397130, 397050, 396955, 396845, 396719, 396575, 396411, 396224, 396011, 395772, 395499, 395191, 394844, 394454, 394013,
       393516, 392957, 392328, 391625, 390840, 389967, 389003, 387942, 386784, 385531, 384191, 382771, 381291, 379769, 378233, 376712,
       375243, 373861, 372604, 371505, 370594, 369894, 369417, 369169, 369145, 369325, 369688, 370201, 370830, 371534, 372274, 373013,
       373716, 374348, 374881, 375292, 375555, 375648, 375551, 375241, 374692, 373870, 372737, 371247, 369337, 366932, 363932, 360219,
       355643, 350021, 343141, 334750, 324575, 312332, 297758, 280670, 261021, 238975, 214972, 191392, 172799, 157881, 145540, 135283,
       126734, 119604, 113665, 108742, 104697, 101419, 98825, 96847, 95436, 94556, 94182, 94301, 94910, 96014, 97634, 99797,
       102543, 105927, 110022, 114920, 120736, 127620, 135757, 145384, 156806, 170411, 186626, 204689, 222087, 238225, 253438, 267344,
       279674, 290271, 299073, 306091, 311364, 314943, 316861, 317118, 315662, 312377, 307079, 299504, 289319, 276140, 259593, 239400,
       215534, 190172, 168936, 151024, 135741, 122723, 111632, 102170, 94083, 87157, 81213, 76100, 71694, 67892, 64608, 61769,
       59315, 57196, 55368, 53795, 52447, 51296, 50318, 50000, 50000, 50000, 50000, 50000, 50000, 50000, 50000, 50000,
       50000, 50000, 50000, 50000, 50000, 50000, 50000, 50000, 50000, 50000, 50000, 50000, 50000, 50000, 50000, 50000,
       50000, 50000, 50000, 50000, 50000, 50000, 50000, 50000, 50000, 50000, 50000, 50000, 50000, 50000, 50000, 50000,
       50000, 50000, 50000, 50000, 50000, 50000, 50000, 50000, 50000, 50000, 50000, 50000, 50004, 50154, 50520, 51098,
       51890, 52904, 54150, 55644, 57409, 59470, 61865, 64635, 67838, 71545, 75847, 80861, 86737, 93677, 101952, 111933,
       124150, 139376, 158785, 184255, 216078, 246884, 275452, 300571, 321608, 338530, 351717, 361756, 369270, 374827, 378901, 381864,
       384000, 385521, 386584, 387304, 387765, 388030, 388148, 388160, 388095, 387976, 387827, 387668, 387521, 387399, 387321, 387299,
       387341, 387455, 387647, 387913, 388249, 388647, 389096, 389582, 390089, 390605, 391112, 391601, 392061, 392486, 392871, 393212,
       393508, 393761, 393972, 394144, 394279, 394378, 394441, 394473, 394471, 394438, 394374, 394276, 394144, 393976, 393768, 393517,
       393219, 392866, 392452, 391971, 391410, 390758, 390003, 389128, 388118, 386950, 385605, 384057, 382286, 380269, 377984, 375420,
       372571, 369446, 366071, 362495, 358791, 355062, 351436, 348065, 345114, 342755, 341155, 340454, 340759, 342123, 344537, 347924,
       352134, 356958, 362141, 367410, 372502, 377200, 381345, 384858, 387724, 389985, 391718, 393015, 393966, 394656, 395154, 395513,
       395769, 395955, 396088, 396181, 396244, 396282, 396298, 396295, 396276, 396241, 396189, 396123, 396042, 395945, 395832, 395702,
       395557, 395395, 395216, 395019, 394804, 394572, 394323, 394058, 393778, 393484, 393180, 392868, 392550, 392234, 391924, 391625,
       391342, 391083, 390852, 390656, 390497, 390380, 390304, 390272, 390280, 390325, 390403, 390505, 390626, 390757, 390889, 391019,
       391136, 391232, 391301, 391340, 391337, 391289, 391188, 391028, 390798, 390487, 390081, 389563, 388907, 388082, 387048, 385746,
       384101, 382005, 379313, 375822, 371246, 365188, 357093, 346208, 331550, 311928, 286114, 253277, 213704, 174573, 146548, 125603,
       109515, 96891, 86814, 78656, 71978, 66461, 61869, 58027, 54796, 52072, 50000, 50000, 50000, 50000, 50000, 50000,
       50000, 50000, 50000, 50000, 50000, 50000, 50000, 50000, 50000, 50000, 50000, 50000, 50000, 50000, 50000, 50041,
       50178, 50394, 50678, 51014, 51389, 51790, 52207, 52626, 53035, 53423, 53780, 54098, 54367, 54582, 54737, 54829,
       54857, 54822, 54726, 54573, 54371, 54125, 53845, 53540, 53218, 52888, 52562, 52250, 51959, 51698, 51477, 51304,
       51184, 51124, 51130, 51209, 51367, 51610, 51943, 52371, 52902, 53540, 54290, 55161, 56160, 57294, 58572, 60001,
       61592, 63353, 65294, 67423, 69750, 72283, 75025, 77983, 81153, 84528, 88095, 91828, 95693, 99637, 103596, 107483,
       111198, 114624, 117634, 120099, 121899, 122934, 123136, 122476, 120970, 118679, 115705, 112170, 108215, 103983, 99607, 95204,
       90871, 86684, 82699, 78954, 75474, 72270, 69345, 66696, 64315, 62192, 60313, 58667, 57240, 56023, 55002, 54170,
       53515, 53031, 52712, 52552, 52549, 52701, 53007, 53468, 54086, 54865, 55810, 56929, 58230, 59724, 61423, 63344,
       65505, 67927, 70633, 73651, 77016, 80765, 84942, 89599, 94797, 100609, 107120, 114430, 122661, 131967, 142530, 154585,
       168432, 184434, 201925, 218842, 234193, 248850, 262707, 275682, 287754, 298932, 309256, 318777, 327556, 335651, 343113, 349986,
       356298, 362071, 367316, 372036, 376236, 379924, 383112, 385826, 388096, 389962, 391474, 392682, 393638, 394388, 394976, 395440,
       395808, 396103, 396345, 396543, 396708, 396846, 396963, 397061, 397143, 397210, 397265, 397308, 397339, 397360, 397370, 397371,
       397361, 397341, 397311, 397270, 397217, 397153, 397077, 396987, 396882, 396762, 396624, 396466, 396286, 396082, 395851, 395589,
       395293, 394960, 394583, 394158, 393679, 393141, 392535, 391857, 391098, 390254, 389318, 388287, 387161, 385939, 384625, 383229,
       381765, 380255, 378720, 377190, 375700, 374286, 372986, 371834, 370861, 370093, 369544, 369224, 369128, 369246, 369554, 370022,
       370617, 371300, 372034, 372777, 373494, 374152, 374720, 375173, 375484, 375635, 375602, 375362, 374893, 374161, 373133, 371763,
       369995, 367755, 364956, 361485, 357200, 351934, 345480, 337599, 328022, 316466, 302658, 286385, 267545, 246228, 222774, 198571,
       178191, 162325, 149224, 138348, 129290, 121734, 115438, 110210, 105898, 102387, 99583, 97414, 95826, 94779, 94245, 94208,
       94659, 95604, 97057, 99042, 101596, 104771, 108631, 113262, 118771, 125297, 133011, 142133, 152943, 165804, 181176, 198776,
       216752, 233152, 248706, 263064, 275918, 287079, 296457, 304040, 309862, 313976, 316421, 317210, 316309, 313624, 308991, 302172,
       292857, 280673, 265235, 246221, 223502, 198063, 175242, 156416, 140338, 126640, 114970, 105019, 96520, 89246, 83007, 77644,
       73025, 69042, 65602, 62628, 60057, 57837, 55922, 54272, 52855, 51644, 50613, 50000, 50000, 50000, 50000, 50000,
       50000, 50000, 50000, 50000, 50000, 50000, 50000, 50000, 50000, 50000, 50000, 50000, 50000, 50000, 50000, 50000,
       50000, 50000, 50000, 50000, 50000, 50000, 50000, 50000, 50000, 50000, 50000, 50000, 50000, 50000, 50000, 50000,
       50000, 50000, 50000, 50000, 50000, 50000, 50000, 50000, 50000, 50000, 50000, 50000, 50000, 50000, 50000, 50000,
       50000, 50085, 50384, 50894, 51620, 52563, 53734, 55147, 56822, 58784, 61067, 63712, 66769, 70306, 74407, 79179,
       84762, 91337, 99152, 108541, 119977, 134142, 152058, 175332, 205734, 237266, 266691, 293007, 315372, 333576, 347892, 358864,
       367115, 373238, 377739, 381020, 383394, 385093, 386287, 387107, 387642, 387964, 388127, 388167, 388121, 388015, 387875, 387717,
       387565, 387434, 387340, 387299, 387319, 387409, 387576, 387820, 388133, 388514, 388948, 389425, 389927, 390442, 390953, 391448,
       391919, 392356, 392753, 393107, 393418, 393685, 393910, 394093, 394239, 394349, 394424, 394465, 394474, 394451, 394397, 394310,
       394189, 394033, 393838, 393602, 393319, 392984, 392590, 392132, 391596, 390975, 390255, 389420, 388454, 387339, 386052, 384572,
       382875, 380940, 378744, 376269, 373510, 370471, 367170, 363650, 359977, 356243, 352569, 349098, 345994, 343428, 341570, 340570,
       340546, 341570, 343654, 346743, 350713, 355367, 360465, 365736, 370911, 375755, 380090, 383809, 386880, 389327, 391218, 392434,
       393541, 394349, 394931, 395352, 395655, 395872, 396029, 396140, 396216, 396266, 396293, 396299, 396288, 396260, 396216, 396157,
       396083, 395993, 395888, 395767, 395630, 395476, 395305, 395116, 394910, 394686, 394446, 394189, 393915, 393627, 393328, 393019,
       392704, 392386, 392073, 391768, 391477, 391206, 390961, 390748, 390571, 390433, 390336, 390284, 390273, 390300, 390363, 390453,
       390566, 390694, 390826, 390958, 391082, 391189, 391273, 391326, 391343, 391319, 391245, 391114, 390920, 390649, 390292, 389831,
       389246, 388508, 387581, 386417, 384950, 383088, 380706, 377631, 373624, 368343, 361317, 351895, 339205, 322149, 299483, 270107,
       233660, 192078, 159084, 135052, 116821, 102654, 91432, 82407, 75057, 69011, 63996, 59808, 56295, 53336, 50840, 50000,
       50000, 50000, 50000, 50000, 50000, 50000, 50000, 50000, 50000, 50000, 50000, 50000, 50000, 50000, 50000, 50000,
       50000, 50000, 50000, 50009, 50101, 50281, 50534, 50846, 51203, 51594, 52004, 52424, 52839, 53238, 53612, 53950,
       54244, 54486, 54671, 54794, 54853, 54849, 54782, 54656, 54477, 54251, 53985, 53690, 53375, 53048, 52719, 52399,
       52097, 51821, 51579, 51381, 51234, 51143, 51116, 51158, 51278, 51479, 51767, 52149, 52628, 53213, 53908, 54720,
       55656, 56724, 57930, 59284, 60796, 62473, 64324, 66361, 68590, 71022, 73662, 76514, 79580, 82856, 86331, 89986,
       93792, 97705, 101667, 105601, 109412, 112994, 116223, 118970, 121108, 122524, 123137, 122897, 121797, 119877, 117222, 113942,
       110174, 106061, 101741, 97338, 92960, 88694, 84605, 80740, 77129, 73790, 70730, 67947, 65437, 63189, 61193, 59436,
       57905, 56588, 55473, 54550, 53809, 53243, 52844, 52607, 52528, 52605, 52836, 53222, 53763, 54463, 55328, 56361,
       57571, 58970, 60568, 62381, 64423, 66714, 69277, 72140, 75332, 78890, 82853, 87270, 92197, 97701, 103860, 110767,
       118534, 127296, 137219, 148514, 161446, 176357, 193279, 210874, 226806, 241811, 256070, 269481, 281995, 293604, 304338, 314242,
       323375, 331796, 339561, 346716, 353298, 359331, 364832, 369806, 374258, 378195, 381624, 384565, 387047, 389103, 390780, 392128,
       393200, 394044, 394708, 395228, 395640, 395968, 396233, 396451, 396632, 396782, 396909, 397015, 397105, 397179, 397240, 397289,
       397325, 397351, 397366, 397372, 397367, 397352, 397327, 397291, 397244, 397186, 397116, 397033, 396936, 396823, 396693, 396546 >>,
     L_chancado |-> <<
       1407947, 1406227, 1404171, 1401686, 1398652, 1398083, 1394213, 1389400, 1383356, 1375686, 1365861, 1353139, 1336503, 1314544, 1285334, 1246297,
       1194135, 1124963, 1034914, 921502, 785838, 644323, 539236, 461068, 401125, 354069, 316441, 300000, 300000, 300000, 300000, 300000,
       300000, 300000, 300000, 300000, 300000, 300000, 300000, 300000, 300000, 300000, 300000, 300000, 300000, 300000, 300000, 300000,
       300000, 300000, 300021, 301307, 304500, 309533, 316377, 325038, 335541, 347929, 362252, 378562, 396899, 417270, 439640, 463898,
       489839, 517127, 545270, 573605, 601285, 627314, 650601, 670043, 683994, 691656, 693122, 688894, 679819, 666964, 651127, 632788,
       612969, 592604, 572488, 553258, 535409, 519304, 505206, 493310, 483765, 476699, 472244, 470559, 471846, 476383, 484551, 496877,
       514102, 537277, 567917, 608253, 661694, 731957, 812011, 897059, 984308, 1069291, 1147673, 1216115, 1272825, 1317616, 1351539, 1376338,
       1393950, 1406172, 1414505, 1420104, 1423821, 1426261, 1427844, 1428846, 1429460, 1429807, 1429968, 1430004, 1429943, 1429813, 1429630, 1429400,
       1429135, 1428838, 1428516, 1428169, 1427800, 1427410, 1427001, 1426570, 1426118, 1425644, 1425143, 1424614, 1424048, 1423441, 1422780, 1422054,
       1421249, 1420341, 1419311, 1418129, 1416757, 1415153, 1413254, 1410987, 1408252, 1404923, 1400833, 1395761, 1389402, 1381352, 1371052, 1357743,
       1340392, 1317598, 1287495, 1247673, 1195182, 1126761, 1039436, 931700, 805134, 670039, 566283, 489006, 429647, 382979, 345618, 315279,
       300000, 300000, 300000, 300000, 300000, 300000, 300000, 300000, 300000, 300000, 300000, 300000, 300000, 300000, 300000, 300000,
       300000, 300000, 300000, 300000, 300305, 301699, 304088, 307331, 311284, 315790, 320679, 325761, 330825, 335642, 339969, 343561,
       346178, 347600, 347651, 346210, 343220, 338699, 332741, 325501, 317186, 308034, 300000, 300000, 300000, 300000, 300000, 300000,
       300000, 300000, 300000, 300000, 300000, 300000, 300000, 300000, 300000, 300000, 300000, 300000, 300000, 300000, 300000, 300000,
       301127, 304482, 310198, 318504, 329740, 344401, 363198, 387150, 417742, 457207, 509016, 578853, 676654, 807500, 940625, 1064115,
       1169185, 1251727, 1312308, 1354435, 1382568, 1400823, 1412435, 1419720, 1424245, 1427025, 1428709, 1429700, 1430252, 1430520, 1430599, 1430551,
       1430413, 1430210, 1429960, 1429669, 1429345, 1428994, 1428622, 1428232, 1427824, 1427402, 1426966, 1426519, 1426058, 1425584, 1425095, 1424586,
       1424054, 1423491, 1422889, 1422243, 1421535, 1420756, 1419888, 1418908, 1417794, 1416514, 1415032, 1413302, 1411271, 1408869, 1406016, 1402598,
       1398483, 1393499, 1387426, 1379990, 1370832, 1359502, 1345438, 1327941, 1306159, 1279094, 1245614, 1204528, 1154715, 1095327, 1026063, 947445,
       861041, 769473, 680446, 611056, 556270, 512260, 476519, 447269, 423213, 403392, 387071, 373683, 362782, 354013, 347081, 341744,
       337790, 335032, 333298, 332427, 332255, 332618, 333346, 334259, 335168, 335877, 336188, 335903, 334837, 332829, 329751, 325517,
       320096, 313511, 305838, 300000, 300000, 300000, 300000, 300000, 300000, 300000, 300000, 300000, 300000, 300000, 300000, 300000,
       300000, 300000, 300000, 300000, 300000, 300000, 300000, 300000, 300000, 300000, 300000, 300000, 300000, 300000, 300000, 300000,
       300000, 300000, 300000, 301260, 305158, 311798, 321411, 334375, 351261, 372897, 400496, 435846, 481671, 542277, 624849, 741122,
       872876, 999018, 1110695, 1202217, 1272374, 1323344, 1358919, 1383054, 1399124, 1409692, 1416587, 1421051, 1423915, 1425717, 1426814, 1427431,
       1427718, 1427778, 1427670, 1427444, 1427127, 1426743, 1426313, 1425848, 1425364, 1424866, 1424371, 1423888, 1423426, 1422989, 1422589, 1422230,
       1421912, 1421640, 1421410, 1421221, 1421067, 1420940, 1420830, 1420732, 1420630, 1420516, 1420377, 1420203, 1419980, 1419701, 1419351, 1418920,
       1418395, 1417764, 1417014, 1416131, 1415100, 1413902, 1412520, 1410932, 1409118, 1407056, 1404720, 1402086, 1399126, 1395824, 1392155, 1388110,
       1383678, 1378863, 1373681, 1368158, 1362342, 1356290, 1350076, 1343794, 1337539, 1331409, 1325505, 1319919, 1314722, 1309959, 1305651, 1301780,
       1298288, 1295088, 1292052, 1289014, 1285774, 1282096, 1277702, 1272274, 1265436, 1256739, 1245640, 1231464, 1213378, 1190331, 1161014, 1123824,
       1076875, 1018097, 945519, 857816, 755169, 649975, 564809, 495084, 437569, 389793, 349853, 316267, 300000, 300000, 300000, 300000,
       300000, 300000, 300000, 300000, 300000, 300000, 300000, 300000, 300000, 300000, 300000, 300000, 300000, 300000, 300000, 300000,
       300000, 300000, 300000, 300000, 300000, 300637, 303681, 309239, 317412, 328398, 342512, 360211, 382129, 409147, 442485, 483868,
       535778, 601903, 687870, 791974, 893512, 988100, 1072011, 1143329, 1201844, 1248549, 1285085, 1313259, 1334781, 1351117, 1363458, 1372742,
       1379685, 1384828, 1388589, 1391277, 1393131, 1394343, 1395065, 1395425, 1395530, 1395483, 1395378, 1395292, 1395306, 1395483, 1395884, 1396548,
       1397497, 1398739, 1400261, 1402028, 1403992, 1406099, 1408283, 1410478, 1412628, 1414681, 1416593, 1418338, 1419896, 1421264, 1422442, 1423438,
       1424267, 1424943, 1425477, 1425887, 1426183, 1426381, 1426490, 1426517, 1426472, 1426362, 1426189, 1425961, 1425676, 1425346, 1424965, 1424541,
       1424077, 1423574, 1423035, 1422468, 1421875, 1421260, 1420628, 1419984, 1419330, 1418666, 1418000, 1417325, 1416644, 1415949, 1415233, 1414486,
       1413692, 1412834, 1411885, 1410819, 1409599, 1408179, 1406506, 1404507, 1402093, 1399151, 1395535, 1391050, 1385431, 1378328, 1369255, 1357549,
       1342291, 1322207, 1295550, 1259964, 1212379, 1149061, 1066034, 960162, 831141, 685842, 569222, 483650, 418605, 367893, 327560, 300000,
       300000, 300000, 300000, 300000, 300000, 300000, 300000, 300000, 300000, 300000, 300000, 300000, 300000, 300000, 300000, 300000,
       300000, 300000, 300000, 300000, 300000, 300000, 300000, 300687, 303282, 307735, 314004, 322084, 331997, 343779, 357480, 373153,
       390842, 410567, 432309, 455984, 481419, 508323, 536259, 564617, 592609, 619280, 643563, 664352, 680240, 689914, 693316, 690824,
       683184, 671409, 656499, 638845, 619389, 599105, 578833, 559263, 540930, 524237, 509475, 496859, 486550, 478679, 473377, 470790,
       471105, 474572, 481533, 492465, 508033, 529177, 557239, 594187, 642986, 707661, 786055, 869553, 956567, 1042764, 1123670, 1195549,
       1256087, 1304607, 1341823, 1369318, 1389012, 1402772, 1412198, 1418560, 1422801, 1425593, 1427411, 1428573, 1429295, 1429718, 1429934, 1430002,
       1429969, 1429859, 1429694, 1429478, 1429225, 1428937, 1428623, 1428284, 1427921, 1427537, 1427132, 1426709, 1426265, 1425798, 1425306, 1424787,
       1424234, 1423641, 1422999, 1422293, 1421514, 1420641, 1419654, 1418526, 1417221, 1415697, 1413899, 1411758, 1409185, 1406061, 1402235, 1397504,
       1391593, 1384134, 1374622, 1362370, 1346442, 1325560, 1298023, 1261594, 1213490, 1150502, 1069463, 968243, 847253, 711618, 595950, 511386,
       446998, 396718, 356680, 324302, 300000, 300000, 300000, 300000, 300000, 300000, 300000, 300000, 300000, 300000, 300000, 300000,
       300000, 300000, 300000, 300000, 300000, 300000, 300000, 300000, 300092, 301139, 303226, 306211, 309954, 314302, 319088, 324129,
       329222, 334144, 338655, 342509, 345461, 347284, 347789, 346833, 344338, 340299, 334785, 327933, 319936, 311022, 301445, 300000,
       300000, 300000, 300000, 300000, 300000, 300000, 300000, 300000, 300000, 300000, 300000, 300000, 300000, 300000, 300000, 300000,
       300000, 300000, 300000, 300000, 300528, 303161, 308104, 315552, 325808, 339312, 356698, 378874, 407150, 443484, 490874, 554150,
       641556, 764789, 898778, 1026463, 1138091, 1227942, 1295232, 1342761, 1374868, 1395870, 1409301, 1417762, 1423032, 1426282, 1428262, 1429442,
       1430115, 1430460, 1430592, 1430580, 1430470, 1430284, 1430046, 1429765, 1429452, 1429108, 1428743, 1428357, 1427955, 1427537, 1427107, 1426662,
       1426206, 1425737, 1425253, 1424750, 1424226, 1423673, 1423086, 1422453, 1421766, 1421012, 1420174, 1419231, 1418162, 1416937, 1415523, 1413879,
       1411952, 1409680, 1406982, 1403758, 1399883, 1395200, 1389504, 1382537, 1373971, 1363389, 1350268, 1333951, 1313640, 1288380, 1257076, 1218546,
       1171628, 1115360, 1049234, 973482, 889326, 799064, 707162, 631357, 572436, 525304, 487147, 455985, 430391, 409308, 391937, 377667,
       366016, 356601, 349113, 343292, 338917, 335798, 333757, 332628, 332250, 332460, 333091, 333964, 334895, 335690, 336150, 336074,
       335276, 333585, 330858, 326998, 321955, 315734, 308395, 300049, 300000, 300000, 300000, 300000, 300000, 300000, 300000, 300000,
       300000, 300000, 300000, 300000, 300000, 300000, 300000, 300000, 300000, 300000, 300000, 300000, 300000, 300000, 300000, 300000,
       300000, 300000, 300000, 300000, 300000, 300000, 300000, 300575, 303627, 309374, 318006, 329852, 345412, 365424, 390962, 423601,
       465713, 521002, 595531, 699742, 831113, 960011, 1077126, 1175404, 1252256, 1308969, 1349008, 1376388, 1394711, 1406800, 1414704, 1419836,
       1423138, 1425235, 1426524, 1427273, 1427657, 1427781, 1427722, 1427530, 1427240, 1426876, 1426458, 1426002, 1425522, 1425026, 1424529, 1424041,
       1423571, 1423127, 1422714, 1422341, 1422010, 1421723, 1421479, 1421277, 1421112, 1420977, 1420864, 1420762, 1420664, 1420554, 1420423, 1420262,
       1420056, 1419796, 1419470, 1419064, 1418570, 1417973, 1417261, 1416423, 1415443, 1414300, 1412978, 1411459, 1409720, 1407737, 1405492, 1402954,
       1400102, 1396909, 1393360, 1389433, 1385124, 1380432, 1375365, 1369949, 1364221, 1358235, 1352065, 1345795, 1339520, 1333340, 1327354, 1321658,
       1316330, 1311427, 1306974, 1302967, 1299363, 1296085, 1293015, 1289995, 1286843, 1283332, 1279199, 1274139, 1267796, 1259744, 1249474, 1236361,
       1219624, 1198287, 1171129, 1136640, 1093020, 1038238, 970246, 887436, 789393, 681212, 590108, 515850, 454741, 404091, 361830, 331854,
       301069, 300000, 300000, 300000, 300000, 300000, 300000, 300000, 300000, 300000, 300000, 300000, 300000, 300000, 300000, 300000,
       300000, 300000, 300000, 300000, 300000, 300000, 300000, 300000, 300000, 300060, 301892, 306226, 313113, 322702, 335250, 351143,
       370919, 395333, 425425, 462650, 509081, 567747, 643237, 741123, 844806, 943334, 1032781, 1110334, 1175001, 1227261, 1268508, 1300515,
       1325064, 1343751, 1357900, 1368567, 1376571, 1382529, 1386917, 1390091, 1392326, 1393829, 1394771, 1395291, 1395506, 1395522, 1395434, 1395329,
       1395286, 1395376, 1395663, 1396196, 1397004, 1398102, 1399489, 1401141, 1403016, 1405065, 1407219, 1409418, 1411597, 1413703, 1415688, 1417515,
       1419165, 1420626, 1421895, 1422979, 1423887, 1424632, 1425232, 1425701, 1426051, 1426294, 1426446, 1426513, 1426503, 1426425, 1426282, 1426081,
       1425820, 1425511, 1425155, 1424752, 1424306, 1423821, 1423300, 1422746, 1422166, 1421560, 1420936, 1420297, 1419647, 1418989, 1418323, 1417654,
       1416976, 1416288, 1415584, 1414855, 1414084, 1413260, 1412358, 1411356, 1410214, 1408895, 1407351, 1405519, 1403316, 1400648, 1397382, 1393345,
       1388314, 1381984, 1373939, 1363609, 1350209, 1332653, 1309439, 1278524, 1237189, 1182002, 1109016, 1014497, 896469, 757041, 620961, 522092,
       448057, 390995, 346021, 309944, 300000, 300000, 300000, 300000, 300000, 300000, 300000, 300000, 300000, 300000, 300000, 300000,
       300000, 300000, 300000, 300000, 300000, 300000, 300000, 300000, 300000, 300000, 300000, 300119, 301786, 305344, 310734, 317934,
       326954, 337823, 350586, 365296, 382002, 400739, 421508, 444259, 468867, 495104, 522605, 550845, 579124, 606563, 632143, 654761,
       673273, 686003, 692425, 692718, 687464, 677558, 664096, 647695, 628987, 608991, 588618, 568630, 549638, 532106, 516377, 502697,
       491251, 482181, 475618, 471694, 470574, 472474, 477688, 486623, 499844, 518143, 542646, 574984, 617576, 674144, 747402, 828327,
       914138, 1001305, 1085313, 1161962, 1228192, 1282531, 1325077, 1357063, 1380301, 1396722, 1408072, 1415789, 1420960, 1424385, 1426630, 1428079,
       1428992, 1429545, 1429849, 1429985, 1429996, 1429921, 1429780, 1429586, 1429349, 1429078, 1428776, 1428450, 1428099, 1427726, 1427331, 1426917,
       1426482, 1426027, 1425549, 1425043, 1424506, 1423933, 1423318, 1422645, 1421902, 1421079, 1420150, 1419093, 1417879, 1416466, 1414809, 1412846,
       1410495, 1407654, 1404191, 1399929, 1394630, 1387975, 1379531, 1368708, 1354696, 1336402, 1312339, 1280537, 1238477, 1183125, 1111204, 1019920,
       908241, 778537, 647030, 549401, 476169, 419634, 375012, 339181, 310015, 300000, 300000, 300000, 300000, 300000, 300000, 300000 >>,
     F_finos |-> <<
       105118, 102518, 100067, 97755, 95576, 95225, 93191, 91273, 89462, 87752, 86125, 84574, 83092, 81675, 80320, 79019,
       77771, 76571, 75417, 74307, 73237, 72208, 71218, 70266, 69352, 68476, 67639, 66840, 66081, 65362, 64682, 64044,
       63449, 62897, 62389, 61928, 61515, 61150, 60838, 60578, 60375, 60231, 60149, 60135, 60189, 60318, 60524, 60814,
       61192, 61662, 62232, 62903, 63683, 64576, 65583, 66708, 67950, 69307, 70776, 72346, 74004, 75734, 77512, 79309,
       81092, 82826, 84473, 85995, 87358, 88531, 89493, 90231, 90736, 91014, 91076, 90943, 90639, 90191, 89631, 88987,
       88285, 87549, 86795, 86034, 85272, 84509, 83744, 82973, 82193, 81400, 80592, 79772, 78938, 78096, 77250, 76409,
       75575, 74758, 73965, 73202, 72478, 71798, 71172, 70607, 70108, 69683, 69340, 69086, 68928, 68875, 68937, 69124,
       69445, 69912, 70538, 71339, 72331, 73532, 74966, 76657, 78635, 80934, 83597, 86675, 90227, 94329, 99035, 104318,
       110066, 116212, 122692, 129441, 136393, 143486, 150656, 157848, 165004, 172073, 178999, 185723, 192206, 198551, 204998, 211489,
       217953, 224376, 230743, 237035, 243231, 249309, 255254, 261047, 266678, 272141, 277428, 282542, 287481, 292249, 296854, 301299,
       305589, 309730, 313724, 317574, 321282, 324848, 328273, 331558, 334704, 337713, 340588, 343332, 345948, 348442, 350815, 353074,
       355223, 357265, 359205, 361049, 362798, 364457, 366030, 367520, 368929, 370261, 371518, 372701, 373813, 374857, 375832, 376741,
       377585, 378362, 379075, 379721, 380302, 380816, 381263, 381640, 381949, 382185, 382351, 382446, 382469, 382422, 382309, 382130,
       381895, 381609, 381278, 380915, 380529, 380130, 379732, 379346, 378981, 378646, 378350, 378096, 377885, 377719, 377596, 377509,
       377452, 377419, 377397, 377382, 377361, 377326, 377269, 377182, 377057, 376887, 376662, 376373, 376008, 375555, 374994, 374302,
       373454, 372413, 371136, 369570, 367653, 365310, 362458, 359008, 354865, 349946, 344185, 337567, 330264, 322558, 314631, 306624,
       298658, 290827, 283220, 275909, 268955, 262413, 256314, 250677, 245489, 240707, 236079, 231132, 226048, 220976, 215991, 211157,
       206526, 202140, 198040, 194262, 190846, 187828, 185255, 183174, 181646, 180739, 180544, 181143, 182542, 184640, 187349, 190581,
       194236, 198204, 202373, 206632, 210876, 215001, 218903, 222481, 225626, 228227, 230301, 232041, 233407, 234248, 234475, 233976,
       232623, 230311, 227135, 223337, 219086, 214523, 209765, 204916, 200068, 195302, 190698, 186326, 182257, 178546, 175235, 172330,
       169595, 166436, 162975, 159318, 155523, 151645, 147729, 143819, 139970, 136204, 132533, 128965, 125507, 122163, 118934, 115822,
       112827, 109948, 107181, 104526, 101979, 99540, 97148, 94839, 92643, 90554, 88568, 86680, 84884, 83176, 81551, 80006,
       78536, 77138, 75809, 74545, 73343, 72200, 71113, 70079, 69096, 68161, 67271, 66426, 65621, 64856, 64129, 63437,
       62779, 62153, 61558, 60992, 60453, 59942, 59455, 58992, 58551, 58132, 57734, 57355, 56993, 56654, 56342, 56068,
       55840, 55666, 55556, 55518, 55559, 55691, 55924, 56270, 56744, 57361, 58142, 59110, 60276, 61670, 63339, 65343,
       67757, 70683, 74266, 78711, 84299, 91137, 99065, 107891, 117376, 127278, 137368, 147450, 157360, 166966, 176157, 184832,
       192887, 200186, 206538, 211940, 217221, 222501, 227906, 233489, 239242, 245109, 251023, 256910, 262712, 268383, 273891, 279215,
       284345, 289276, 294010, 298551, 302905, 307079, 311080, 314918, 318597, 322125, 325506, 328745, 331845, 334811, 337645, 340352,
       342935, 345396, 347740, 349972, 352095, 354114, 356035, 357862, 359599, 361252, 362823, 364316, 365736, 367081, 368358, 369565,
       370704, 371776, 372783, 373722, 374593, 375396, 376130, 376792, 377380, 377890, 378317, 378656, 378904, 379052, 379092, 379018,
       378823, 378497, 378037, 377439, 376702, 375829, 374830, 373722, 372529, 371280, 370014, 368773, 367605, 366561, 365686, 365024,
       364608, 364458, 364582, 364969, 365596, 366424, 367403, 368478, 369596, 370705, 371762, 372735, 373600, 374352, 374992, 375534,
       375998, 376411, 376804, 377202, 377626, 378092, 378605, 379162, 379759, 380380, 381016, 381656, 382288, 382905, 383502, 384076,
       384623, 385141, 385629, 386088, 386517, 386916, 387287, 387628, 387941, 388226, 388484, 388717, 388924, 389107, 389268, 389408,
       389528, 389630, 389717, 389792, 389855, 389911, 389961, 390007, 390052, 390097, 390144, 390192, 390244, 390298, 390356, 390415,
       390476, 390534, 390592, 390645, 390692, 390732, 390760, 390777, 390780, 390767, 390733, 390678, 390596, 390482, 390331, 390132,
       389874, 389544, 389118, 388570, 387862, 386941, 385736, 384147, 382038, 379228, 375482, 370528, 364084, 355981, 346627, 336552,
       326099, 315512, 304967, 294603, 284538, 274885, 265754, 257269, 249561, 242748, 236904, 232018, 227315, 221648, 215497, 209123,
       202690, 196297, 190012, 183874, 177912, 172143, 166576, 161214, 156061, 151090, 146139, 141431, 136953, 132695, 128646, 124795,
       121136, 117666, 114378, 111265, 108322, 105542, 102918, 100443, 98110, 95911, 93838, 91883, 90038, 88296, 86643, 85068,
       83565, 82127, 80752, 79435, 78171, 76955, 75787, 74662, 73579, 72538, 71534, 70570, 69644, 68755, 67905, 67094,
       66322, 65589, 64898, 64248, 63639, 63073, 62551, 62075, 61645, 61265, 60934, 60659, 60437, 60275, 60173, 60135,
       60167, 60272, 60454, 60717, 61067, 61507, 62045, 62684, 63429, 64284, 65254, 66341, 67547, 68868, 70302, 71842,
       73474, 75185, 76950, 78745, 80538, 82292, 83971, 85537, 86955, 88193, 89225, 90035, 90613, 90962, 91091, 91017,
       90763, 90358, 89830, 89208, 88522, 87794, 87045, 86284, 85522, 84759, 83995, 83227, 82451, 81662, 80859, 80042,
       79212, 78372, 77527, 76683, 75845, 75022, 74220, 73446, 72709, 72016, 71372, 70786, 70263, 69814, 69443, 69159,
       68971, 68884, 68909, 69055, 69331, 69750, 70324, 71068, 71997, 73129, 74485, 76090, 77971, 80164, 82706, 85645,
       89037, 92953, 97463, 102573, 108182, 114206, 120587, 127258, 134152, 141207, 148359, 155550, 162725, 169828, 176806, 183600,
       190155, 196527, 202923, 209420, 215892, 222330, 228718, 235037, 241266, 247384, 253373, 259216, 264899, 270417, 275760, 280929,
       285923, 290745, 295402, 299897, 304236, 308424, 312465, 316360, 320113, 323724, 327194, 330523, 333713, 336767, 339684, 342469,
       345126, 347657, 350068, 352363, 354546, 356621, 358594, 360467, 362247, 363934, 365534, 367050, 368484, 369841, 371121, 372328,
       373464, 374530, 375527, 376458, 377322, 378121, 378853, 379521, 380123, 380658, 381126, 381527, 381857, 382116, 382305, 382423,
       382467, 382443, 382350, 382191, 381973, 381702, 381385, 381031, 380651, 380255, 379856, 379465, 379093, 378747, 378438, 378170,
       377946, 377766, 377629, 377531, 377466, 377426, 377401, 377384, 377366, 377336, 377287, 377211, 377099, 376943, 376738, 376469,
       376130, 375706, 375182, 374535, 373739, 372764, 371567, 370100, 368302, 366104, 363424, 360174, 356261, 351598, 346110, 339758,
       332641, 325040, 317166, 309172, 301181, 293299, 285613, 278201, 271128, 264451, 258208, 252423, 247095, 242191, 237566, 232738,
       227669, 222582, 217564, 212676, 207975, 203507, 199311, 195427, 191891, 188743, 186023, 183780, 182069, 180957, 180524, 180864,
       182016, 183901, 186423, 189499, 193031, 196911, 201027, 205270, 209530, 213703, 217686, 221379, 224674, 227456, 229692, 231508,
       233021, 234037, 234470, 234216, 233149, 231147, 228218, 224598, 220476, 215997, 211289, 206459, 201601, 196801, 192137, 187684,
       183511, 179680, 176240, 173208, 170479, 167481, 164098, 160497, 156741, 152884, 148975, 145056, 141185, 137391, 133689, 130087,
       126594, 123214, 119948, 116800, 113768, 110852, 108049, 105360, 102779, 100305, 97907, 95561, 93330, 91209, 89191, 87272,
       85446, 83710, 82059, 80490, 78997, 77578, 76227, 74943, 73721, 72560, 71454, 70403, 69404, 68454, 67550, 66690,
       65873, 65095, 64357, 63655, 62986, 62350, 61745, 61170, 60622, 60102, 59607, 59137, 58689, 58264, 57859, 57474,
       57108, 56762, 56440, 56153, 55910, 55718, 55587, 55524, 55539, 55641, 55840, 56149, 56581, 57151, 57877, 58783,
       59884, 61201, 62778, 64667, 66940, 69690, 73046, 77189, 82382, 88837, 96436, 105000, 114302, 124098, 134152, 144255,
       154235, 163951, 173285, 182138, 190401, 197958, 204637, 210273, 215549, 220814, 226170, 231694, 237396, 243234, 249141, 255043,
       260879, 266595, 272157, 277541, 282733, 287727, 292523, 297124, 301538, 305768, 309825, 313714, 317444, 321019, 324446, 327730,
       330873, 333883, 336759, 339507, 342128, 344628, 347009, 349276, 351432, 353485, 355436, 357293, 359058, 360737, 362334, 363851,
       365294, 366663, 367961, 369190, 370352, 371446, 372473, 373433, 374327, 375152, 375909, 376594, 377204, 377739, 378193, 378561,
       378838, 379019, 379094, 379057, 378901, 378618, 378200, 377646, 376953, 376123, 375164, 374088, 372919, 371684, 370418, 369164,
       367968, 366879, 365945, 365211, 364712, 364476, 364512, 364819, 365373, 366142, 367077, 368129, 369238, 370354, 371432, 372273,
       373194, 374001, 374694, 375281, 375779, 376213, 376613, 377006, 377414, 377859, 378349, 378886, 379464, 380075, 380705, 381345,
       381983, 382609, 383216, 383801, 384361, 384893, 385397, 385869, 386313, 386726, 387110, 387465, 387792, 388091, 388362, 388607,
       388827, 389021, 389193, 389343, 389472, 389582, 389676, 389757, 389827, 389886, 389938, 389985, 390031, 390076, 390122, 390169,
       390220, 390273, 390329, 390388, 390447, 390507, 390566, 390621, 390671, 390714, 390749, 390772, 390782, 390777, 390753, 390710,
       390641, 390544, 390412, 390237, 390009, 389716, 389339, 388854, 388230, 387420, 386362, 384975, 383138, 380693, 377434, 373102,
       367414, 360114, 351283, 341506, 331202, 320655, 310071, 299602, 289379, 279512, 270114, 261299, 253198, 245937, 239620, 234275,
       229731, 224480, 218521, 212231, 205811, 199388, 193044, 186831, 180780, 174915, 169249, 163789, 158535, 153489, 148509, 143684,
       139097, 134734, 130585, 126638, 122887, 119326, 115950, 112753, 109729, 106871, 104173, 101627, 99227, 96963, 94829, 92817,
       90920, 89130, 87437, 85825, 84287, 82819, 81415, 80070, 78780, 77542, 76350, 75204, 74101, 73040, 72017, 71034,
       70090, 69182, 68314, 67484, 66693, 65941, 65229, 64559, 63929, 63343, 62799, 62300, 61848, 61443, 61088, 60784,
       60536, 60345, 60213, 60145, 60144, 60213, 60357, 60578, 60885, 61282, 61771, 62359, 63052, 63852, 64767, 65796,
       66943, 68209, 69589, 71078, 72667, 74341, 76083, 77867, 79665, 81442, 83162, 84788, 86282, 87611, 88746, 89665,
       90355, 90816, 91050, 91073, 90904, 90567, 90095, 89515, 88857, 88148, 87406, 86650, 85889, 85126, 84363, 83598,
       82825, 82042, 81247, 80436, 79613, 78777, 77934, 77089, 76247, 75416, 74603, 73814, 73058, 72342, 71673, 71058,
       70504, 70019, 69609, 69283, 69046, 68909, 68878, 68964, 69175, 69524, 70021, 70680, 71517, 72548, 73792, 75273,
       77016, 79054, 81419, 84159, 87323, 90976, 95192, 100015, 105396, 111226, 117441, 123978, 130772, 137755, 144868, 152047,
       159236, 166381, 173426, 180318, 186997, 193443, 199787, 206258, 212745, 219201, 225616, 231971, 238246, 244420, 250474, 256390,
       262152, 267751, 273180, 278433, 283514, 288418, 293155, 297729, 302143, 306403, 310516, 314481, 318304, 321983, 325522, 328919,
       332177, 335296, 338280, 341130, 343848, 346440, 348909, 351260, 353498, 355626, 357648, 359570, 361395, 363127, 364770, 366326 >>,
     F_sobre_tamano |-> <<
       5500, 5500, 5500, 5500, 5500, 5500, 5500, 5500, 5500, 5500, 5508, 5526, 5553, 5586, 5624, 5667,
       5712, 5758, 5804, 5848, 5890, 5928, 5961, 5989, 6010, 6025, 6033, 6034, 6028, 6015, 5997, 5973,
       5945, 5913, 5879, 5843, 5806, 5771, 5737, 5706, 5679, 5656, 5639, 5627, 5623, 5626, 5638, 5658,
       5688, 5728, 5778, 5840, 5914, 6001, 6101, 6215, 6345, 6491, 6653, 6834, 7034, 7254, 7495, 7758,
       8044, 8353, 8686, 9042, 9420, 9818, 10234, 10662, 11097, 11531, 11954, 12354, 12717, 13031, 13280, 13452,
       13538, 13530, 13427, 13233, 12956, 12608, 12203, 11757, 11285, 10801, 10319, 9846, 9392, 8962, 8560, 8186,
       7844, 7532, 7250, 6997, 6772, 6574, 6401, 6251, 6124, 6019, 5933, 5867, 5820, 5791, 5779, 5784,
       5806, 5845, 5901, 5975, 6066, 6176, 6305, 6455, 6626, 6821, 7041, 7287, 7563, 7871, 8215, 8598,
       9025, 9501, 10032, 10624, 11287, 12030, 12865, 13806, 14872, 16083, 17468, 19063, 20891, 22832, 24621, 26286,
       27871, 29365, 30761, 32057, 33256, 34363, 35383, 36324, 37192, 37991, 38727, 39402, 40018, 40577, 41077, 41521,
       41909, 42243, 42526, 42761, 42953, 43108, 43231, 43328, 43405, 43465, 43512, 43550, 43580, 43605, 43626, 43643,
       43657, 43670, 43680, 43688, 43695, 43701, 43705, 43708, 43710, 43711, 43710, 43709, 43707, 43703, 43698, 43692,
       43684, 43676, 43665, 43653, 43639, 43623, 43605, 43585, 43561, 43535, 43505, 43471, 43433, 43390, 43341, 43287,
       43225, 43156, 43079, 42992, 42896, 42790, 42674, 42546, 42408, 42261, 42105, 41942, 41775, 41606, 41438, 41277,
       41125, 40986, 40866, 40765, 40688, 40636, 40609, 40606, 40626, 40666, 40722, 40791, 40869, 40950, 41031, 41109,
       41178, 41237, 41282, 41311, 41321, 41311, 41277, 41216, 41126, 41001, 40837, 40627, 40363, 40033, 39624, 39121,
       38502, 37746, 36823, 35703, 34357, 32753, 30874, 28712, 26287, 23647, 21053, 19008, 17367, 16009, 14881, 13941,
       13156, 12503, 11962, 11517, 11156, 10871, 10653, 10498, 10401, 10360, 10373, 10440, 10562, 10740, 10978, 11280,
       11652, 12102, 12641, 13281, 14038, 14933, 15992, 17249, 18745, 20529, 22516, 24430, 26205, 27878, 29408, 30764,
       31930, 32898, 33670, 34250, 34644, 34855, 34883, 34723, 34361, 33779, 32945, 31825, 30375, 28555, 26334, 23709,
       20919, 18583, 16613, 14932, 13500, 12280, 11239, 10349, 9587, 8933, 8371, 7886, 7468, 7107, 6795, 6525,
       6292, 6090, 5917, 5769, 5643, 5535, 5500, 5500, 5500, 5500, 5500, 5500, 5500, 5500, 5500, 5500,
       5500, 5500, 5500, 5500, 5500, 5500, 5500, 5500, 5500, 5500, 5500, 5500, 5500, 5500, 5500, 5500,
       5500, 5500, 5500, 5500, 5500, 5500, 5500, 5500, 5500, 5500, 5500, 5500, 5500, 5500, 5500, 5500,
       5500, 5500, 5500, 5500, 5500, 5500, 5500, 5500, 5500, 5500, 5500, 5500, 5517, 5557, 5621, 5708,
       5819, 5957, 6121, 6315, 6542, 6805, 7110, 7462, 7870, 8343, 8895, 9541, 10304, 11215, 12313, 13657,
       15331, 17466, 20268, 23769, 27157, 30300, 33063, 35377, 37238, 38689, 39793, 40620, 41231, 41679, 42005, 42240,
       42407, 42524, 42603, 42654, 42683, 42696, 42698, 42690, 42677, 42661, 42643, 42627, 42614, 42605, 42603, 42608,
       42620, 42641, 42670, 42707, 42751, 42801, 42854, 42910, 42967, 43022, 43076, 43127, 43173, 43216, 43253, 43286,
       43314, 43337, 43356, 43371, 43382, 43389, 43392, 43392, 43388, 43381, 43370, 43356, 43337, 43314, 43287, 43254,
       43215, 43170, 43117, 43055, 42983, 42900, 42804, 42693, 42565, 42417, 42246, 42051, 41830, 41578, 41296, 40983,
       40639, 40268, 39874, 39467, 39057, 38658, 38287, 37963, 37703, 37527, 37450, 37483, 37634, 37899, 38272, 38735,
       39265, 39836, 40415, 40975, 41492, 41948, 42334, 42650, 42898, 43089, 43232, 43336, 43412, 43467, 43506, 43535,
       43555, 43570, 43580, 43587, 43591, 43593, 43592, 43590, 43587, 43581, 43574, 43565, 43554, 43542, 43527, 43511,
       43493, 43474, 43452, 43428, 43403, 43376, 43346, 43316, 43283, 43250, 43215, 43181, 43146, 43112, 43079, 43048,
       43019, 42994, 42972, 42955, 42942, 42933, 42930, 42931, 42936, 42944, 42956, 42969, 42983, 42998, 43012, 43025,
       43036, 43043, 43047, 43047, 43042, 43031, 43013, 42988, 42954, 42909, 42852, 42780, 42689, 42575, 42432, 42251,
       42021, 41724, 41340, 40837, 40171, 39280, 38083, 36471, 34312, 31473, 27860, 23507, 19203, 16120, 13816, 12047,
       10658, 9550, 8652, 7918, 7311, 6806, 6383, 6028, 5728, 5500, 5500, 5500, 5500, 5500, 5500, 5500,
       5500, 5500, 5500, 5500, 5500, 5500, 5500, 5500, 5500, 5500, 5500, 5500, 5500, 5500, 5505, 5520,
       5543, 5575, 5612, 5653, 5697, 5743, 5789, 5834, 5877, 5916, 5951, 5980, 6004, 6021, 6031, 6034,
       6030, 6020, 6003, 5981, 5954, 5923, 5889, 5854, 5818, 5782, 5748, 5715, 5687, 5662, 5643, 5630,
       5624, 5624, 5633, 5650, 5677, 5714, 5761, 5819, 5889, 5972, 6068, 6178, 6302, 6443, 6600, 6775,
       6969, 7182, 7417, 7673, 7951, 8253, 8578, 8927, 9298, 9690, 10101, 10526, 10960, 11396, 11823, 12232,
       12609, 12940, 13211, 13409, 13523, 13545, 13472, 13307, 13055, 12728, 12339, 11904, 11438, 10957, 10472, 9996,
       9535, 9097, 8685, 8302, 7950, 7628, 7337, 7075, 6841, 6634, 6453, 6296, 6163, 6050, 5959, 5887,
       5833, 5798, 5781, 5780, 5797, 5831, 5881, 5949, 6035, 6139, 6262, 6405, 6570, 6757, 6968, 7206,
       7472, 7770, 8102, 8472, 8884, 9344, 9856, 10428, 11067, 11783, 12587, 13493, 14516, 15678, 17004, 18528,
       20288, 22212, 24073, 25761, 27374, 28898, 30325, 31653, 32883, 34018, 35065, 36031, 36922, 37742, 38498, 39193,
       39828, 40405, 40924, 41386, 41792, 42142, 42441, 42691, 42896, 43062, 43195, 43300, 43383, 43447, 43498, 43539,
       43571, 43598, 43620, 43638, 43653, 43666, 43677, 43686, 43693, 43699, 43704, 43707, 43710, 43711, 43711, 43710,
       43708, 43704, 43700, 43694, 43687, 43678, 43669, 43657, 43644, 43629, 43611, 43591, 43569, 43544, 43515, 43482,
       43446, 43404, 43357, 43305, 43246, 43179, 43104, 43021, 42928, 42825, 42712, 42588, 42453, 42309, 42155, 41994,
       41828, 41659, 41491, 41327, 41171, 41028, 40902, 40795, 40710, 40650, 40615, 40604, 40617, 40651, 40702, 40768,
       40843, 40924, 41005, 41084, 41157, 41219, 41269, 41303, 41320, 41316, 41290, 41238, 41158, 41045, 40894, 40699,
       40453, 40145, 39763, 39292, 38713, 38003, 37136, 36082, 34811, 33292, 31502, 29430, 27085, 24505, 21843, 19601,
       17856, 16415, 15218, 14222, 13391, 12698, 12123, 11649, 11263, 10954, 10716, 10541, 10426, 10367, 10363, 10412,
       10516, 10676, 10895, 11176, 11525, 11949, 12459, 13065, 13783, 14631, 15635, 16824, 18238, 19929, 21865, 23843,
       25647, 27358, 28937, 30351, 31579, 32610, 33444, 34085, 34537, 34806, 34893, 34794, 34499, 33989, 33239, 32214,
       30874, 29176, 27084, 24585, 21787, 19277, 17206, 15437, 13930, 12647, 11552, 10617, 9817, 9131, 8541, 8033,
       7595, 7216, 6889, 6606, 6362, 6151, 5970, 5814, 5681, 5567, 5500, 5500, 5500, 5500, 5500, 5500,
       5500, 5500, 5500, 5500, 5500, 5500, 5500, 5500, 5500, 5500, 5500, 5500, 5500, 5500, 5500, 5500,
       5500, 5500, 5500, 5500, 5500, 5500, 5500, 5500, 5500, 5500, 5500, 5500, 5500, 5500, 5500, 5500,
       5500, 5500, 5500, 5500, 5500, 5500, 5500, 5500, 5500, 5500, 5500, 5500, 5500, 5500, 5500, 5500,
       5509, 5542, 5598, 5678, 5782, 5911, 6066, 6250, 6466, 6717, 7008, 7345, 7734, 8185, 8710, 9324,
       10047, 10907, 11940, 13197, 14756, 16726, 19287, 22631, 26099, 29336, 32231, 34691, 36693, 38268, 39475, 40383,
       41056, 41551, 41912, 42173, 42360, 42492, 42582, 42641, 42676, 42694, 42698, 42693, 42682, 42666, 42649, 42632,
       42618, 42607, 42603, 42605, 42615, 42633, 42660, 42695, 42737, 42784, 42837, 42892, 42949, 43005, 43059, 43111,
       43159, 43203, 43242, 43276, 43305, 43330, 43350, 43366, 43378, 43387, 43391, 43392, 43390, 43384, 43374, 43361,
       43344, 43322, 43296, 43265, 43228, 43185, 43135, 43076, 43007, 42928, 42836, 42730, 42607, 42466, 42303, 42116,
       41903, 41662, 41390, 41086, 40752, 40389, 40002, 39597, 39187, 38783, 38401, 38059, 37777, 37573, 37463, 37453,
       37546, 37756, 38078, 38500, 39001, 39556, 40134, 40707, 41248, 41735, 42156, 42505, 42786, 43003, 43168, 43290,
       43378, 43442, 43489, 43522, 43546, 43563, 43575, 43584, 43589, 43592, 43593, 43592, 43589, 43584, 43577, 43569,
       43559, 43548, 43534, 43519, 43502, 43484, 43463, 43440, 43415, 43389, 43361, 43331, 43299, 43266, 43232, 43197,
       43162, 43128, 43094, 43062, 43033, 43006, 42982, 42963, 42948, 42937, 42931, 42930, 42933, 42940, 42950, 42962,
       42976, 42991, 43005, 43019, 43031, 43040, 43046, 43048, 43045, 43037, 43023, 43001, 42971, 42932, 42881, 42817,
       42736, 42634, 42506, 42345, 42140, 41878, 41539, 41099, 40518, 39745, 38708, 37313, 35436, 32943, 29712, 25703,
       21129, 17499, 14856, 12850, 11292, 10058, 9065, 8256, 7591, 7040, 6579, 6192, 5867, 5592, 5500, 5500,
       5500, 5500, 5500, 5500, 5500, 5500, 5500, 5500, 5500, 5500, 5500, 5500, 5500, 5500, 5500, 5500,
       5500, 5500, 5501, 5511, 5531, 5559, 5593, 5632, 5675, 5720, 5767, 5812, 5856, 5897, 5935, 5967,
       5993, 6014, 6027, 6034, 6033, 6026, 6012, 5992, 5968, 5938, 5906, 5871, 5835, 5799, 5764, 5731,
       5700, 5674, 5652, 5636, 5626, 5623, 5627, 5641, 5663, 5694, 5736, 5789, 5853, 5930, 6019, 6122,
       6240, 6372, 6521, 6688, 6872, 7076, 7300, 7545, 7812, 8103, 8417, 8754, 9114, 9496, 9898, 10317,
       10748, 11183, 11616, 12035, 12429, 12785, 13087, 13322, 13478, 13545, 13519, 13398, 13186, 12894, 12534, 12119,
       11667, 11192, 10707, 10226, 9756, 9307, 8881, 8484, 8117, 7780, 7474, 7198, 6951, 6731, 6538, 6370,
       6225, 6102, 6001, 5919, 5857, 5813, 5787, 5778, 5787, 5812, 5854, 5914, 5991, 6086, 6200, 6333,
       6487, 6662, 6862, 7087, 7339, 7620, 7935, 8287, 8678, 9114, 9600, 10142, 10747, 11425, 12184, 13039,
       14003, 15094, 16337, 17759, 19399, 21261, 23196, 24949, 26599, 28168, 29643, 31019, 32296, 33477, 34567, 35571,
       36498, 37352, 38139, 38863, 39526, 40132, 40679, 41168, 41601, 41979, 42302, 42575, 42801, 42986, 43134, 43252,
       43345, 43418, 43475, 43520, 43556, 43586, 43610, 43630, 43646, 43660, 43672, 43682, 43690, 43696, 43702, 43706 >>,
     F_target |-> <<
       200000, 200000, 200000, 200000, 200000, 200000, 200000, 200000, 200000, 200000, 200000, 200000, 200000, 200000, 200000, 200000,
       200000, 200000, 200000, 200000, 200000, 200000, 200000, 200000, 200000, 200000, 200000, 200000, 200000, 200000, 200000, 200000,
       200000, 200000, 200000, 200000, 200000, 200000, 200000, 200000, 200000, 200000, 200000, 200000, 200000, 200000, 200000, 200000,
       200000, 200000, 200000, 200000, 200000, 200000, 200000, 200000, 200000, 200000, 200000, 200000, 200000, 200000, 200000, 200000,
       200000, 200000, 200000, 200000, 200000, 200000, 200000, 200000, 200000, 200000, 200000, 200000, 200000, 200000, 200000, 200000,
       200000, 200000, 200000, 200000, 200000, 200000, 200000, 200000, 200000, 200000, 200000, 200000, 200000, 200000, 200000, 200000,
       200000, 200000, 200000, 200000, 200000, 200000, 200000, 200000, 200000, 200000, 200000, 200000, 200000, 200000, 200000, 200000,
       200000, 200000, 200000, 200000, 200000, 200000, 200000, 200000, 200000, 200000, 200000, 200000, 200000, 200000, 200000, 200000,
       200000, 200000, 200000, 200000, 200000, 200000, 200000, 200000, 200000, 200000, 200000, 200000, 200000, 200000, 200000, 200000,
       200000, 200000, 200000, 200000, 200000, 200000, 200000, 200000, 200000, 200000, 200000, 200000, 200000, 200000, 200000, 200000,
       200000, 200000, 200000, 200000, 200000, 200000, 200000, 200000, 200000, 200000, 200000, 200000, 200000, 200000, 200000, 200000,
       200000, 200000, 200000, 200000, 200000, 200000, 200000, 200000, 200000, 200000, 200000, 200000, 200000, 200000, 200000, 200000,
       200000, 200000, 200000, 200000, 200000, 200000, 200000, 200000, 200000, 200000, 200000, 200000, 200000, 200000, 200000, 200000,
       200000, 200000, 200000, 200000, 200000, 200000, 200000, 200000, 200000, 200000, 200000, 200000, 200000, 200000, 200000, 200000,
       200000, 200000, 200000, 200000, 200000, 200000, 200000, 200000, 200000, 200000, 200000, 200000, 200000, 200000, 200000, 200000,
       200000, 200000, 200000, 200000, 200000, 200000, 200000, 200000, 200000, 200000, 200000, 200000, 200000, 200000, 200000, 200000,
       200000, 200000, 200000, 200000, 200000, 200000, 200000, 200000, 200000, 200000, 200000, 200000, 200000, 200000, 200000, 200000,
       200000, 200000, 200000, 200000, 200000, 200000, 200000, 200000, 200000, 200000, 200000, 200000, 200000, 200000, 200000, 200000,
       200000, 200000, 200000, 200000, 200000, 200000, 200000, 200000, 200000, 200000, 200000, 200000, 200000, 200000, 200000, 200000,
       200000, 200000, 200000, 200000, 200000, 200000, 200000, 200000, 200000, 200000, 200000, 200000, 200000, 200000, 200000, 200000,
       200000, 200000, 200000, 200000, 200000, 200000, 200000, 200000, 200000, 200000, 200000, 200000, 200000, 200000, 200000, 200000,
       200000, 200000, 200000, 200000, 200000, 200000, 200000, 200000, 200000, 200000, 200000, 200000, 200000, 200000, 200000, 200000,
       200000, 200000, 200000, 200000, 200000, 200000, 200000, 200000, 200000, 200000, 200000, 200000, 200000, 200000, 200000, 200000,
       200000, 200000, 200000, 200000, 200000, 200000, 200000, 200000, 200000, 200000, 200000, 200000, 200000, 200000, 200000, 200000,
       200000, 200000, 200000, 200000, 200000, 200000, 200000, 200000, 200000, 200000, 200000, 200000, 200000, 200000, 200000, 200000,
       200000, 200000, 200000, 200000, 200000, 200000, 200000, 200000, 200000, 200000, 200000, 200000, 200000, 200000, 200000, 200000,
       200000, 200000, 200000, 200000, 200000, 200000, 200000, 200000, 200000, 200000, 200000, 200000, 200000, 200000, 200000, 200000,
       200000, 200000, 200000, 200000, 200000, 200000, 200000, 200000, 200000, 200000, 200000, 200000, 200000, 200000, 200000, 200000,
       200000, 200000, 200000, 200000, 200000, 200000, 200000, 200000, 200000, 200000, 200000, 200000, 200000, 200000, 200000, 200000,
       200000, 200000, 200000, 200000, 200000, 200000, 200000, 200000, 200000, 200000, 200000, 200000, 200000, 200000, 200000, 200000,
       200000, 200000, 200000, 200000, 200000, 200000, 200000, 200000, 200000, 200000, 200000, 200000, 200000, 200000, 200000, 200000,
       200000, 200000, 200000, 200000, 200000, 200000, 200000, 200000, 200000, 200000, 200000, 200000, 200000, 200000, 200000, 200000,
       200000, 200000, 200000, 200000, 200000, 200000, 200000, 200000, 200000, 200000, 200000, 200000, 200000, 200000, 200000, 200000,
       200000, 200000, 200000, 200000, 200000, 200000, 200000, 200000, 200000, 200000, 200000, 200000, 200000, 200000, 200000, 200000,
       200000, 200000, 200000, 200000, 200000, 200000, 200000, 200000, 200000, 200000, 200000, 200000, 200000, 200000, 200000, 200000,
       200000, 200000, 200000, 200000, 200000, 200000, 200000, 200000, 200000, 200000, 200000, 200000, 200000, 200000, 200000, 200000,
       200000, 200000, 200000, 200000, 200000, 200000, 200000, 200000, 200000, 200000, 200000, 200000, 200000, 200000, 200000, 200000,
       200000, 200000, 200000, 200000, 200000, 200000, 200000, 200000, 200000, 200000, 200000, 200000, 200000, 200000, 200000, 200000,
       200000, 200000, 200000, 200000, 200000, 200000, 200000, 200000, 200000, 200000, 200000, 200000, 200000, 200000, 200000, 200000,
       200000, 200000, 200000, 200000, 200000, 200000, 200000, 200000, 200000, 200000, 200000, 200000, 200000, 200000, 200000, 200000,
       200000, 200000, 200000, 200000, 200000, 200000, 200000, 200000, 200000, 200000, 200000, 200000, 200000, 200000, 200000, 200000,
       200000, 200000, 200000, 200000, 200000, 200000, 200000, 200000, 200000, 200000, 200000, 200000, 200000, 200000, 200000, 200000,
       200000, 200000, 200000, 200000, 200000, 200000, 200000, 200000, 200000, 200000, 200000, 200000, 200000, 200000, 200000, 200000,
       200000, 200000, 200000, 200000, 200000, 200000, 200000, 200000, 200000, 200000, 200000, 200000, 200000, 200000, 200000, 200000,
       200000, 200000, 200000, 200000, 200000, 200000, 200000, 200000, 200000, 200000, 200000, 200000, 200000, 200000, 200000, 200000,
       200000, 200000, 200000, 200000, 200000, 200000, 200000, 200000, 200000, 200000, 200000, 200000, 200000, 200000, 200000, 200000,
       200000, 200000, 200000, 200000, 200000, 200000, 200000, 200000, 200000, 200000, 200000, 200000, 200000, 200000, 200000, 200000,
       200000, 200000, 200000, 200000, 200000, 200000, 200000, 200000, 200000, 200000, 200000, 200000, 200000, 200000, 200000, 200000,
       200000, 200000, 200000, 200000, 200000, 200000, 200000, 200000, 200000, 200000, 200000, 200000, 200000, 200000, 200000, 200000,
       200000, 200000, 200000, 200000, 200000, 200000, 200000, 200000, 200000, 200000, 200000, 200000, 200000, 200000, 200000, 200000,
       200000, 200000, 200000, 200000, 200000, 200000, 200000, 200000, 200000, 200000, 200000, 200000, 200000, 200000, 200000, 200000,
       200000, 200000, 200000, 200000, 200000, 200000, 200000, 200000, 200000, 200000, 200000, 200000, 200000, 200000, 200000, 200000,
       200000, 200000, 200000, 200000, 200000, 200000, 200000, 200000, 200000, 200000, 200000, 200000, 200000, 200000, 200000, 200000,
       200000, 200000, 200000, 200000, 200000, 200000, 200000, 200000, 200000, 200000, 200000, 200000, 200000, 200000, 200000, 200000,
       200000, 200000, 200000, 200000, 200000, 200000, 200000, 200000, 200000, 200000, 200000, 200000, 200000, 200000, 200000, 200000,
       200000, 200000, 200000, 200000, 200000, 200000, 200000, 200000, 200000, 200000, 200000, 200000, 200000, 200000, 200000, 200000,
       200000, 200000, 200000, 200000, 200000, 200000, 200000, 200000, 200000, 200000, 200000, 200000, 200000, 200000, 200000, 200000,
       200000, 200000, 200000, 200000, 200000, 200000, 200000, 200000, 200000, 200000, 200000, 200000, 200000, 200000, 200000, 200000,
       200000, 200000, 200000, 200000, 200000, 200000, 200000, 200000, 200000, 200000, 200000, 200000, 200000, 200000, 200000, 200000,
       200000, 200000, 200000, 200000, 200000, 200000, 200000, 200000, 200000, 200000, 200000, 200000, 200000, 200000, 200000, 200000,
       200000, 200000, 200000, 200000, 200000, 200000, 200000, 200000, 200000, 200000, 200000, 200000, 200000, 200000, 200000, 200000,
       200000, 200000, 200000, 200000, 200000, 200000, 200000, 200000, 200000, 200000, 200000, 200000, 200000, 200000, 200000, 200000,
       200000, 200000, 200000, 200000, 200000, 200000, 200000, 200000, 200000, 200000, 200000, 200000, 200000, 200000, 200000, 200000,
       200000, 200000, 200000, 200000, 200000, 200000, 200000, 200000, 200000, 200000, 200000, 200000, 200000, 200000, 200000, 200000,
       200000, 200000, 200000, 200000, 200000, 200000, 200000, 200000, 200000, 200000, 200000, 200000, 200000, 200000, 200000, 200000,
       200000, 200000, 200000, 200000, 200000, 200000, 200000, 200000, 200000, 200000, 200000, 200000, 200000, 200000, 200000, 200000,
       200000, 200000, 200000, 200000, 200000, 200000, 200000, 200000, 200000, 200000, 200000, 200000, 200000, 200000, 200000, 200000,
       200000, 200000, 200000, 200000, 200000, 200000, 200000, 200000, 200000, 200000, 200000, 200000, 200000, 200000, 200000, 200000,
       200000, 200000, 200000, 200000, 200000, 200000, 200000, 200000, 200000, 200000, 200000, 200000, 200000, 200000, 200000, 200000,
       200000, 200000, 200000, 200000, 200000, 200000, 200000, 200000, 200000, 200000, 200000, 200000, 200000, 200000, 200000, 200000,
       200000, 200000, 200000, 200000, 200000, 200000, 200000, 200000, 200000, 200000, 200000, 200000, 200000, 200000, 200000, 200000,
       200000, 200000, 200000, 200000, 200000, 200000, 200000, 200000, 200000, 200000, 200000, 200000, 200000, 200000, 200000, 200000,
       200000, 200000, 200000, 200000, 200000, 200000, 200000, 200000, 200000, 200000, 200000, 200000, 200000, 200000, 200000, 200000,
       200000, 200000, 200000, 200000, 200000, 200000, 200000, 200000, 200000, 200000, 200000, 200000, 200000, 200000, 200000, 200000,
       200000, 200000, 200000, 200000, 200000, 200000, 200000, 200000, 200000, 200000, 200000, 200000, 200000, 200000, 200000, 200000,
       200000, 200000, 200000, 200000, 200000, 200000, 200000, 200000, 200000, 200000, 200000, 200000, 200000, 200000, 200000, 200000,
       200000, 200000, 200000, 200000, 200000, 200000, 200000, 200000, 200000, 200000, 200000, 200000, 200000, 200000, 200000, 200000,
       200000, 200000, 200000, 200000, 200000, 200000, 200000, 200000, 200000, 200000, 200000, 200000, 200000, 200000, 200000, 200000,
       200000, 200000, 200000, 200000, 200000, 200000, 200000, 200000, 200000, 200000, 200000, 200000, 200000, 200000, 200000, 200000,
       200000, 200000, 200000, 200000, 200000, 200000, 200000, 200000, 200000, 200000, 200000, 200000, 200000, 200000, 200000, 200000,
       200000, 200000, 200000, 200000, 200000, 200000, 200000, 200000, 200000, 200000, 200000, 200000, 200000, 200000, 200000, 200000,
       200000, 200000, 200000, 200000, 200000, 200000, 200000, 200000, 200000, 200000, 200000, 200000, 200000, 200000, 200000, 200000,
       200000, 200000, 200000, 200000, 200000, 200000, 200000, 200000, 200000, 200000, 200000, 200000, 200000, 200000, 200000, 200000,
       200000, 200000, 200000, 200000, 200000, 200000, 200000, 200000, 200000, 200000, 200000, 200000, 200000, 200000, 200000, 200000,
       200000, 200000, 200000, 200000, 200000, 200000, 200000, 200000, 200000, 200000, 200000, 200000, 200000, 200000, 200000, 200000,
       200000, 200000, 200000, 200000, 200000, 200000, 200000, 200000, 200000, 200000, 200000, 200000, 200000, 200000, 200000, 200000,
       200000, 200000, 200000, 200000, 200000, 200000, 200000, 200000, 200000, 200000, 200000, 200000, 200000, 200000, 200000, 200000,
       200000, 200000, 200000, 200000, 200000, 200000, 200000, 200000, 200000, 200000, 200000, 200000, 200000, 200000, 200000, 200000,
       200000, 200000, 200000, 200000, 200000, 200000, 200000, 200000, 200000, 200000, 200000, 200000, 200000, 200000, 200000, 200000,
       200000, 200000, 200000, 200000, 200000, 200000, 200000, 200000, 200000, 200000, 200000, 200000, 200000, 200000, 200000, 200000 >>,
     L_target |-> <<
       720000, 720000, 720000, 720000, 720000, 720000, 720000, 720000, 720000, 720000, 720000, 720000, 720000, 720000, 720000, 720000,
       720000, 720000, 720000, 720000, 720000, 720000, 720000, 720000, 720000, 720000, 720000, 720000, 720000, 720000, 720000, 720000,
       720000, 720000, 720000, 720000, 720000, 720000, 720000, 720000, 720000, 720000, 720000, 720000, 720000, 720000, 720000, 720000,
       720000, 720000, 720000, 720000, 720000, 720000, 720000, 720000, 720000, 720000, 720000, 720000, 720000, 720000, 720000, 720000,
       720000, 720000, 720000, 720000, 720000, 720000, 720000, 720000, 720000, 720000, 720000, 720000, 720000, 720000, 720000, 720000,
       720000, 720000, 720000, 720000, 720000, 720000, 720000, 720000, 720000, 720000, 720000, 720000, 720000, 720000, 720000, 720000,
       720000, 720000, 720000, 720000, 720000, 720000, 720000, 720000, 720000, 720000, 720000, 720000, 720000, 720000, 720000, 720000,
       720000, 720000, 720000, 720000, 720000, 720000, 720000, 720000, 720000, 720000, 720000, 720000, 720000, 720000, 720000, 720000,
       720000, 720000, 720000, 720000, 720000, 720000, 720000, 720000, 720000, 720000, 720000, 720000, 720000, 720000, 720000, 720000,
       720000, 720000, 720000, 720000, 720000, 720000, 720000, 720000, 720000, 720000, 720000, 720000, 720000, 720000, 720000, 720000,
       720000, 720000, 720000, 720000, 720000, 720000, 720000, 720000, 720000, 720000, 720000, 720000, 720000, 720000, 720000, 720000,
       720000, 720000, 720000, 720000, 720000, 720000, 720000, 720000, 720000, 720000, 720000, 720000, 720000, 720000, 720000, 720000,
       720000, 720000, 720000, 720000, 720000, 720000, 720000, 720000, 720000, 720000, 720000, 720000, 720000, 720000, 720000, 720000,
       720000, 720000, 720000, 720000, 720000, 720000, 720000, 720000, 720000, 720000, 720000, 720000, 720000, 720000, 720000, 720000,
       720000, 720000, 720000, 720000, 720000, 720000, 720000, 720000, 720000, 720000, 720000, 720000, 720000, 720000, 720000, 720000,
       720000, 720000, 720000, 720000, 720000, 720000, 720000, 720000, 720000, 720000, 720000, 720000, 720000, 720000, 720000, 720000,
       720000, 720000, 720000, 720000, 720000, 720000, 720000, 720000, 720000, 720000, 720000, 720000, 720000, 720000, 720000, 720000,
       720000, 720000, 720000, 720000, 720000, 720000, 720000, 720000, 720000, 720000, 720000, 720000, 720000, 720000, 720000, 720000,
       720000, 720000, 720000, 720000, 720000, 720000, 720000, 720000, 720000, 720000, 720000, 720000, 720000, 720000, 720000, 720000,
       720000, 720000, 720000, 720000, 720000, 720000, 720000, 720000, 720000, 720000, 720000, 720000, 720000, 720000, 720000, 720000,
       720000, 720000, 720000, 720000, 720000, 720000, 720000, 720000, 720000, 720000, 720000, 720000, 720000, 720000, 720000, 720000,
       720000, 720000, 720000, 720000, 720000, 720000, 720000, 720000, 720000, 720000, 720000, 720000, 720000, 720000, 720000, 720000,
       720000, 720000, 720000, 720000, 720000, 720000, 720000, 720000, 720000, 720000, 720000, 720000, 720000, 720000, 720000, 720000,
       720000, 720000, 720000, 720000, 720000, 720000, 720000, 720000, 720000, 720000, 720000, 720000, 720000, 720000, 720000, 720000,
       720000, 720000, 720000, 720000, 720000, 720000, 720000, 720000, 720000, 720000, 720000, 720000, 720000, 720000, 720000, 720000,
       720000, 720000, 720000, 720000, 720000, 720000, 720000, 720000, 720000, 720000, 720000, 720000, 720000, 720000, 720000, 720000,
       720000, 720000, 720000, 720000, 720000, 720000, 720000, 720000, 720000, 720000, 720000, 720000, 720000, 720000, 720000, 720000,
       720000, 720000, 720000, 720000, 720000, 720000, 720000, 720000, 720000, 720000, 720000, 720000, 720000, 720000, 720000, 720000,
       720000, 720000, 720000, 720000, 720000, 720000, 720000, 720000, 720000, 720000, 720000, 720000, 720000, 720000, 720000, 720000,
       720000, 720000, 720000, 720000, 720000, 720000, 720000, 720000, 720000, 720000, 720000, 720000, 720000, 720000, 720000, 720000,
       720000, 720000, 720000, 720000, 720000, 720000, 720000, 720000, 720000, 720000, 720000, 720000, 720000, 720000, 720000, 720000,
       720000, 720000, 720000, 720000, 720000, 720000, 720000, 720000, 720000, 720000, 720000, 720000, 720000, 720000, 720000, 720000,
       720000, 720000, 720000, 720000, 720000, 720000, 720000, 720000, 720000, 720000, 720000, 720000, 720000, 720000, 720000, 720000,
       720000, 720000, 720000, 720000, 720000, 720000, 720000, 720000, 720000, 720000, 720000, 720000, 720000, 720000, 720000, 720000,
       720000, 720000, 720000, 720000, 720000, 720000, 720000, 720000, 720000, 720000, 720000, 720000, 720000, 720000, 720000, 720000,
       720000, 720000, 720000, 720000, 720000, 720000, 720000, 720000, 720000, 720000, 720000, 720000, 720000, 720000, 720000, 720000,
       720000, 720000, 720000, 720000, 720000, 720000, 720000, 720000, 720000, 720000, 720000, 720000, 720000, 720000, 720000, 720000,
       720000, 720000, 720000, 720000, 720000, 720000, 720000, 720000, 720000, 720000, 720000, 720000, 720000, 720000, 720000, 720000,
       720000, 720000, 720000, 720000, 720000, 720000, 720000, 720000, 720000, 720000, 720000, 720000, 720000, 720000, 720000, 720000,
       720000, 720000, 720000, 720000, 720000, 720000, 720000, 720000, 720000, 720000, 720000, 720000, 720000, 720000, 720000, 720000,
       720000, 720000, 720000, 720000, 720000, 720000, 720000, 720000, 720000, 720000, 720000, 720000, 720000, 720000, 720000, 720000,
       720000, 720000, 720000, 720000, 720000, 720000, 720000, 720000, 720000, 720000, 720000, 720000, 720000, 720000, 720000, 720000,
       720000, 720000, 720000, 720000, 720000, 720000, 720000, 720000, 720000, 720000, 720000, 720000, 720000, 720000, 720000, 720000,
       720000, 720000, 720000, 720000, 720000, 720000, 720000, 720000, 720000, 720000, 720000, 720000, 720000, 720000, 720000, 720000,
       720000, 720000, 720000, 720000, 720000, 720000, 720000, 720000, 720000, 720000, 720000, 720000, 720000, 720000, 720000, 720000,
       720000, 720000, 720000, 720000, 720000, 720000, 720000, 720000, 720000, 720000, 720000, 720000, 720000, 720000, 720000, 720000,
       720000, 720000, 720000, 720000, 720000, 720000, 720000, 720000, 720000, 720000, 720000, 720000, 720000, 720000, 720000, 720000,
       720000, 720000, 720000, 720000, 720000, 720000, 720000, 720000, 720000, 720000, 720000, 720000, 720000, 720000, 720000, 720000,
       720000, 720000, 720000, 720000, 720000, 720000, 720000, 720000, 720000, 720000, 720000, 720000, 720000, 720000, 720000, 720000,
       720000, 720000, 720000, 720000, 720000, 720000, 720000, 720000, 720000, 720000, 720000, 720000, 720000, 720000, 720000, 720000,
       720000, 720000, 720000, 720000, 720000, 720000, 720000, 720000, 720000, 720000, 720000, 720000, 720000, 720000, 720000, 720000,
       720000, 720000, 720000, 720000, 720000, 720000, 720000, 720000, 720000, 720000, 720000, 720000, 720000, 720000, 720000, 720000,
       720000, 720000, 720000, 720000, 720000, 720000, 720000, 720000, 720000, 720000, 720000, 720000, 720000, 720000, 720000, 720000,
       720000, 720000, 720000, 720000, 720000, 720000, 720000, 720000, 720000, 720000, 720000, 720000, 720000, 720000, 720000, 720000,
       720000, 720000, 720000, 720000, 720000, 720000, 720000, 720000, 720000, 720000, 720000, 720000, 720000, 720000, 720000, 720000,
       720000, 720000, 720000, 720000, 720000, 720000, 720000, 720000, 720000, 720000, 720000, 720000, 720000, 720000, 720000, 720000,
       720000, 720000, 720000, 720000, 720000, 720000, 720000, 720000, 720000, 720000, 720000, 720000, 720000, 720000, 720000, 720000,
       720000, 720000, 720000, 720000, 720000, 720000, 720000, 720000, 720000, 720000, 720000, 720000, 720000, 720000, 720000, 720000,
       720000, 720000, 720000, 720000, 720000, 720000, 720000, 720000, 720000, 720000, 720000, 720000, 720000, 720000, 720000, 720000,
       720000, 720000, 720000, 720000, 720000, 720000, 720000, 720000, 720000, 720000, 720000, 720000, 720000, 720000, 720000, 720000,
       720000, 720000, 720000, 720000, 720000, 720000, 720000, 720000, 720000, 720000, 720000, 720000, 720000, 720000, 720000, 720000,
       720000, 720000, 720000, 720000, 720000, 720000, 720000, 720000, 720000, 720000, 720000, 720000, 720000, 720000, 720000, 720000,
       720000, 720000, 720000, 720000, 720000, 720000, 720000, 720000, 720000, 720000, 720000, 720000, 720000, 720000, 720000, 720000,
       720000, 720000, 720000, 720000, 720000, 720000, 720000, 720000, 720000, 720000, 720000, 720000, 720000, 720000, 720000, 720000,
       720000, 720000, 720000, 720000, 720000, 720000, 720000, 720000, 720000, 720000, 720000, 720000, 720000, 720000, 720000, 720000,
       720000, 720000, 720000, 720000, 720000, 720000, 720000, 720000, 720000, 720000, 720000, 720000, 720000, 720000, 720000, 720000,
       720000, 720000, 720000, 720000, 720000, 720000, 720000, 720000, 720000, 720000, 720000, 720000, 720000, 720000, 720000, 720000,
       720000, 720000, 720000, 720000, 720000, 720000, 720000, 720000, 720000, 720000, 720000, 720000, 720000, 720000, 720000, 720000,
       720000, 720000, 720000, 720000, 720000, 720000, 720000, 720000, 720000, 720000, 720000, 720000, 720000, 720000, 720000, 720000,
       720000, 720000, 720000, 720000, 720000, 720000, 720000, 720000, 720000, 720000, 720000, 720000, 720000, 720000, 720000, 720000,
       720000, 720000, 720000, 720000, 720000, 720000, 720000, 720000, 720000, 720000, 720000, 720000, 720000, 720000, 720000, 720000,
       720000, 720000, 720000, 720000, 720000, 720000, 720000, 720000, 720000, 720000, 720000, 720000, 720000, 720000, 720000, 720000,
       720000, 720000, 720000, 720000, 720000, 720000, 720000, 720000, 720000, 720000, 720000, 720000, 720000, 720000, 720000, 720000,
       720000, 720000, 720000, 720000, 720000, 720000, 720000, 720000, 720000, 720000, 720000, 720000, 720000, 720000, 720000, 720000,
       720000, 720000, 720000, 720000, 720000, 720000, 720000, 720000, 720000, 720000, 720000, 720000, 720000, 720000, 720000, 720000,
       720000, 720000, 720000, 720000, 720000, 720000, 720000, 720000, 720000, 720000, 720000, 720000, 720000, 720000, 720000, 720000,
       720000, 720000, 720000, 720000, 720000, 720000, 720000, 720000, 720000, 720000, 720000, 720000, 720000, 720000, 720000, 720000,
       720000, 720000, 720000, 720000, 720000, 720000, 720000, 720000, 720000, 720000, 720000, 720000, 720000, 720000, 720000, 720000,
       720000, 720000, 720000, 720000, 720000, 720000, 720000, 720000, 720000, 720000, 720000, 720000, 720000, 720000, 720000, 720000,
       720000, 720000, 720000, 720000, 720000, 720000, 720000, 720000, 720000, 720000, 720000, 720000, 720000, 720000, 720000, 720000,
       720000, 720000, 720000, 720000, 720000, 720000, 720000, 720000, 720000, 720000, 720000, 720000, 720000, 720000, 720000, 720000,
       720000, 720000, 720000, 720000, 720000, 720000, 720000, 720000, 720000, 720000, 720000, 720000, 720000, 720000, 720000, 720000,
       720000, 720000, 720000, 720000, 720000, 720000, 720000, 720000, 720000, 720000, 720000, 720000, 720000, 720000, 720000, 720000,
       720000, 720000, 720000, 720000, 720000, 720000, 720000, 720000, 720000, 720000, 720000, 720000, 720000, 720000, 720000, 720000,
       720000, 720000, 720000, 720000, 720000, 720000, 720000, 720000, 720000, 720000, 720000, 720000, 720000, 720000, 720000, 720000,
       720000, 720000, 720000, 720000, 720000, 720000, 720000, 720000, 720000, 720000, 720000, 720000, 720000, 720000, 720000, 720000,
       720000, 720000, 720000, 720000, 720000, 720000, 720000, 720000, 720000, 720000, 720000, 720000, 720000, 720000, 720000, 720000,
       720000, 720000, 720000, 720000, 720000, 720000, 720000, 720000, 720000, 720000, 720000, 720000, 720000, 720000, 720000, 720000,
       720000, 720000, 720000, 720000, 720000, 720000, 720000, 720000, 720000, 720000, 720000, 720000, 720000, 720000, 720000, 720000,
       720000, 720000, 720000, 720000, 720000, 720000, 720000, 720000, 720000, 720000, 720000, 720000, 720000, 720000, 720000, 720000 >>,
     F_descarga |-> <<
       110618, 108018, 105567, 103255, 101076, 100725, 98691, 96773, 94962, 93252, 91633, 90100, 88645, 87261, 85944, 84686,
       83483, 82329, 81221, 80155, 79127, 78136, 77179, 76255, 75362, 74501, 73672, 72874, 72109, 71377, 70679, 70017,
       69394, 68810, 68268, 67771, 67321, 66921, 66575, 66284, 66054, 65887, 65788, 65762, 65812, 65944, 66162, 66472,
       66880, 67390, 68010, 68743, 69597, 70577, 71684, 72923, 74295, 75798, 77429, 79180, 81038, 82988, 85007, 87067,
       89136, 91179, 93159, 95037, 96778, 98349, 99727, 100893, 101833, 102545, 103030, 103297, 103356, 103222, 102911, 102439,
       101823, 101079, 100222, 99267, 98228, 97117, 95947, 94730, 93478, 92201, 90911, 89618, 88330, 87058, 85810, 84595,
       83419, 82290, 81215, 80199, 79250, 78372, 77573, 76858, 76232, 75702, 75273, 74953, 74748, 74666, 74716, 74908,
       75251, 75757, 76439, 77314, 78397, 79708, 81271, 83112, 85261, 87755, 90638, 93962, 97790, 102200, 107250, 112916,
       119091, 125713, 132724, 140065, 147680, 155516, 163521, 171654, 179876, 188156, 196467, 204786, 213097, 221383, 229619, 237775,
       245824, 253741, 261504, 269092, 276487, 283672, 290637, 297371, 303870, 310132, 316155, 321944, 327499, 332826, 337931, 342820,
       347498, 351973, 356250, 360335, 364235, 367956, 371504, 374886, 378109, 381178, 384100, 386882, 389528, 392047, 394441, 396717,
       398880, 400935, 402885, 404737, 406493, 408158, 409735, 411228, 412639, 413972, 415228, 416410, 417520, 418560, 419530, 420433,
       421269, 422038, 422740, 423374, 423941, 424439, 424868, 425225, 425510, 425720, 425856, 425917, 425902, 425812, 425650, 425417,
       425120, 424765, 424357, 423907, 423425, 422920, 422406, 421892, 421389, 420907, 420455, 420038, 419660, 419325, 419034, 418786,
       418577, 418405, 418263, 418147, 418049, 417962, 417878, 417788, 417683, 417553, 417384, 417164, 416877, 416505, 416025, 415411,
       414632, 413650, 412418, 410881, 408974, 406621, 403735, 400224, 395991, 390947, 385022, 378194, 370627, 362591, 354255, 345745,
       337160, 328573, 320043, 311612, 303312, 295166, 287188, 279389, 271776, 264354, 257132, 250140, 243415, 236985, 230872, 225098,
       219682, 214643, 210002, 205779, 202002, 198699, 195908, 193672, 192047, 191099, 190917, 191583, 193104, 195380, 198327, 201861,
       205888, 210306, 215014, 219913, 224914, 229934, 234895, 239730, 244371, 248756, 252817, 256471, 259612, 262126, 263883, 264740,
       264553, 263209, 260805, 257587, 253730, 249378, 244648, 239639, 234429, 229081, 223643, 218151, 212632, 207101, 201569, 196039,
       190514, 185019, 179588, 174250, 169023, 163925, 158968, 154168, 149557, 145137, 140904, 136851, 132975, 129270, 125729, 122347,
       119119, 116038, 113098, 110295, 107622, 105075, 102648, 100339, 98143, 96054, 94068, 92180, 90384, 88676, 87051, 85506,
       84036, 82638, 81309, 80045, 78843, 77700, 76613, 75579, 74596, 73661, 72771, 71926, 71121, 70356, 69629, 68937,
       68279, 67653, 67058, 66492, 65953, 65442, 64955, 64492, 64051, 63632, 63234, 62855, 62493, 62154, 61842, 61568,
       61340, 61166, 61056, 61018, 61059, 61191, 61424, 61770, 62244, 62861, 63642, 64610, 65793, 67227, 68960, 71051,
       73576, 76640, 80387, 85026, 90841, 97942, 106175, 115353, 125246, 135621, 146263, 156991, 167664, 178181, 188470, 198489,
       208218, 217652, 226806, 235709, 244378, 252801, 260969, 268866, 276480, 283798, 290816, 297530, 303943, 310062, 315896, 321455,
       326752, 331800, 336613, 341205, 345588, 349775, 353778, 357608, 361274, 364786, 368149, 371372, 374459, 377416, 380248, 382960,
       385555, 388037, 390410, 392679, 394846, 396915, 398889, 400772, 402566, 404274, 405899, 407443, 408909, 410297, 411611, 412851,
       414018, 415113, 416139, 417093, 417975, 418785, 419522, 420184, 420768, 421271, 421687, 422012, 422241, 422366, 422379, 422272,
       422038, 421667, 421154, 420494, 419685, 418729, 417634, 416415, 415094, 413697, 412260, 410824, 409435, 408139, 406982, 406007,
       405247, 404726, 404456, 404436, 404653, 405082, 405690, 406441, 407299, 408232, 409212, 410218, 411234, 412251, 413264, 414269,
       415263, 416247, 417219, 418177, 419118, 420040, 420939, 421812, 422657, 423469, 424248, 424992, 425700, 426372, 427008, 427611,
       428178, 428711, 429209, 429675, 430108, 430509, 430879, 431218, 431528, 431807, 432058, 432282, 432478, 432649, 432795, 432919,
       433021, 433104, 433169, 433220, 433258, 433287, 433307, 433323, 433335, 433347, 433359, 433373, 433390, 433410, 433435, 433463,
       433495, 433528, 433564, 433600, 433634, 433665, 433690, 433708, 433716, 433711, 433689, 433647, 433579, 433480, 433343, 433157,
       432910, 432587, 432165, 431617, 430904, 429972, 428749, 427135, 424992, 422137, 418334, 413308, 406773, 398556, 389059, 378803,
       368120, 357236, 346307, 335440, 324709, 314165, 303837, 293740, 283873, 274221, 264764, 255525, 246518, 237768, 229313, 221170,
       213348, 205847, 198664, 191792, 185223, 178949, 172959, 167242, 161789, 156590, 151639, 146931, 142453, 138195, 134146, 130295,
       126636, 123166, 119878, 116765, 113822, 111042, 108418, 105943, 103610, 101411, 99338, 97383, 95538, 93796, 92148, 90588,
       89108, 87702, 86364, 85088, 83868, 82698, 81576, 80496, 79456, 78454, 77485, 76550, 75648, 74776, 73936, 73128,
       72352, 71609, 70901, 70229, 69593, 68996, 68440, 67929, 67463, 67047, 66682, 66374, 66124, 65937, 65816, 65765,
       65791, 65896, 66087, 66367, 66744, 67221, 67806, 68503, 69318, 70256, 71322, 72519, 73849, 75311, 76902, 78617,
       80443, 82367, 84367, 86418, 88489, 90545, 92549, 94464, 96253, 97883, 99326, 100561, 101573, 102358, 102914, 103249,
       103372, 103298, 103041, 102617, 102045, 101339, 100517, 99591, 98577, 97487, 96334, 95131, 93889, 92619, 91331, 90038,
       88747, 87469, 86212, 84985, 83795, 82650, 81557, 80521, 79550, 78650, 77825, 77082, 76426, 75864, 75402, 75046,
       74804, 74682, 74690, 74835, 75128, 75581, 76205, 77017, 78032, 79268, 80747, 82495, 84541, 86921, 89674, 92851,
       96509, 100723, 105565, 111045, 117066, 123550, 130443, 137686, 145219, 152990, 160946, 169043, 177241, 185506, 193810, 202128,
       210443, 218739, 226996, 235181, 243266, 251228, 259043, 266690, 274149, 281402, 288438, 295247, 301821, 308159, 314258, 320122,
       325751, 331150, 336326, 341283, 346028, 350566, 354906, 359051, 363009, 366786, 370389, 373823, 377096, 380214, 383182, 386008,
       388697, 391255, 393688, 396001, 398199, 400287, 402271, 404153, 405940, 407633, 409238, 410757, 412194, 413552, 414832, 416038,
       417172, 418234, 419227, 420152, 421009, 421799, 422522, 423178, 423767, 424287, 424737, 425118, 425426, 425660, 425820, 425905,
       425913, 425847, 425707, 425496, 425219, 424881, 424489, 424052, 423579, 423080, 422568, 422053, 421546, 421056, 420593, 420164,
       419774, 419425, 419120, 418858, 418637, 418454, 418303, 418179, 418076, 417986, 417902, 417815, 417716, 417594, 417440, 417237,
       416973, 416630, 416187, 415619, 414896, 413983, 412836, 411403, 409622, 407420, 404714, 401412, 397419, 392643, 387004, 380457,
       373094, 365185, 356929, 348464, 339894, 331302, 322749, 314283, 305939, 297743, 289710, 281853, 274180, 266696, 259409, 252339,
       245525, 238997, 232782, 226898, 221366, 216205, 211434, 207076, 203154, 199697, 196739, 194321, 192495, 191324, 190887, 191276,
       192532, 194577, 197318, 200675, 204556, 208860, 213486, 218335, 223313, 228334, 233321, 238203, 242912, 247385, 251557, 255351,
       258668, 261395, 263407, 264567, 264728, 263757, 261662, 258683, 255013, 250803, 246182, 241253, 236100, 230790, 225376, 219898,
       214385, 208856, 203324, 197793, 192266, 186758, 181304, 175934, 170671, 165531, 160527, 155673, 151002, 146522, 142230, 138120,
       134189, 130430, 126837, 123406, 120130, 117003, 114019, 111174, 108460, 105872, 103407, 101061, 98830, 96709, 94691, 92772,
       90946, 89210, 87559, 85990, 84497, 83078, 81727, 80443, 79221, 78060, 76954, 75903, 74904, 73954, 73050, 72190,
       71373, 70595, 69857, 69155, 68486, 67850, 67245, 66670, 66122, 65602, 65107, 64637, 64189, 63764, 63359, 62974,
       62608, 62262, 61940, 61653, 61410, 61218, 61087, 61024, 61039, 61141, 61340, 61649, 62081, 62651, 63377, 64283,
       65393, 66743, 68376, 70345, 72722, 75601, 79112, 83439, 88848, 95554, 103444, 112345, 122036, 132283, 142862, 153579,
       164282, 174858, 185225, 195335, 205157, 214684, 223924, 232904, 241648, 250150, 258401, 266385, 274089, 281502, 288616, 295426,
       301935, 308146, 314069, 319714, 325093, 330219, 335105, 339765, 344214, 348462, 352523, 356407, 360126, 363685, 367095, 370362,
       373491, 376490, 379362, 382112, 384743, 387261, 389669, 391971, 394169, 396269, 398273, 400185, 402007, 403742, 405393, 406962,
       408453, 409866, 411203, 412466, 413657, 414776, 415823, 416799, 417705, 418539, 419300, 419986, 420594, 421123, 421567, 421922,
       422182, 422341, 422390, 422322, 422129, 421803, 421335, 420722, 419960, 419051, 418000, 416818, 415526, 414150, 412721, 411280,
       409871, 408541, 407335, 406297, 405464, 404865, 404514, 404416, 404560, 404925, 405478, 406188, 407015, 407927, 408895, 409726,
       410740, 411757, 412772, 413781, 414780, 415769, 416747, 417713, 418662, 419594, 420505, 421391, 422250, 423078, 423873, 424635,
       425361, 426051, 426705, 427323, 427907, 428456, 428972, 429453, 429902, 430318, 430703, 431057, 431381, 431675, 431939, 432176,
       432386, 432569, 432727, 432862, 432974, 433066, 433139, 433197, 433242, 433275, 433299, 433316, 433330, 433342, 433354, 433366,
       433382, 433401, 433423, 433450, 433480, 433513, 433548, 433584, 433619, 433651, 433680, 433702, 433715, 433717, 433703, 433672,
       433617, 433535, 433417, 433256, 433040, 432756, 432385, 431902, 431275, 430457, 429385, 427976, 426109, 423625, 420315, 415919,
       410150, 402748, 393789, 383851, 373342, 362533, 351610, 340701, 329897, 319257, 308822, 298612, 288634, 278880, 269332, 259978,
       250860, 241979, 233377, 225081, 217103, 209446, 202109, 195087, 188371, 181955, 175828, 169981, 164402, 159081, 154009, 149184,
       144597, 140234, 136085, 132138, 128387, 124826, 121450, 118253, 115229, 112371, 109673, 107127, 104727, 102463, 100329, 98317,
       96420, 94630, 92938, 91336, 89818, 88378, 87008, 85702, 84455, 83262, 82117, 81016, 79957, 78937, 77952, 77001,
       76083, 75196, 74341, 73518, 72726, 71967, 71241, 70551, 69897, 69281, 68705, 68171, 67683, 67242, 66852, 66515,
       66236, 66019, 65865, 65781, 65770, 65836, 65984, 66219, 66548, 66976, 67507, 68148, 68905, 69782, 70786, 71918,
       73183, 74581, 76110, 77766, 79539, 81417, 83383, 85412, 87477, 89545, 91579, 93542, 95396, 97107, 98644, 99982,
       101103, 101999, 102666, 103108, 103333, 103352, 103182, 102837, 102335, 101693, 100925, 100048, 99075, 98020, 96897, 95717,
       94492, 93234, 91954, 90662, 89369, 88084, 86815, 85573, 84364, 83196, 82077, 81012, 80009, 79073, 78211, 77428,
       76729, 76121, 75610, 75202, 74903, 74722, 74665, 74742, 74962, 75336, 75875, 76594, 77508, 78634, 79992, 81606,
       83503, 85716, 88281, 91246, 94662, 98596, 103127, 108302, 114074, 120340, 127041, 134120, 141519, 149180, 157052, 165086,
       173239, 181475, 189763, 198077, 206396, 214704, 222983, 231207, 239344, 247369, 255259, 262990, 270542, 277897, 285041, 291961,
       298650, 305103, 311319, 317296, 323040, 328550, 333834, 338897, 343744, 348382, 352818, 357056, 361105, 364969, 368656, 372171,
       375522, 378714, 381755, 384650, 387404, 390026, 392519, 394890, 397144, 399286, 401320, 403252, 405085, 406823, 408472, 410032 >>,
     L_sag |-> <<
       1313776, 1315987, 1318153, 1320292, 1322372, 1322713, 1324683, 1326530, 1328225, 1329716, 1330949, 1331844, 1332292, 1332160, 1331248, 1329303,
       1325983, 1320845, 1313293, 1302662, 1288239, 1269485, 1247000, 1222016, 1195354, 1167583, 1139105, 1110288, 1082060, 1054573, 1027805, 1001705,
       976245, 951392, 927125, 903403, 880207, 857510, 835289, 813533, 792221, 771337, 750879, 730829, 711184, 691948, 673132, 654720,
       636735, 619184, 602079, 585464, 569445, 554150, 539727, 526292, 513979, 502918, 493235, 485041, 478445, 473532, 470361, 468969,
       469355, 471461, 475183, 480376, 486834, 494309, 502507, 511118, 519819, 528262, 536159, 543282, 549493, 554720, 558951, 562195,
       564494, 565914, 566543, 566471, 565794, 564613, 563015, 561088, 558909, 556561, 554115, 551645, 549239, 546972, 544935, 543235,
       542012, 541424, 541679, 543060, 545948, 550875, 558413, 568860, 582451, 599292, 619308, 642258, 667774, 695400, 724656, 755085,
       786304, 817974, 849825, 881618, 913182, 944383, 975073, 1005158, 1034539, 1063130, 1090862, 1117654, 1143459, 1168221, 1191821, 1213972,
       1234395, 1253007, 1269833, 1284954, 1298483, 1310541, 1321278, 1330820, 1339302, 1346835, 1353532, 1359490, 1364791, 1369508, 1373707, 1377438,
       1380755, 1383698, 1386298, 1388582, 1390575, 1392299, 1393759, 1394964, 1395914, 1396600, 1397008, 1397112, 1396880, 1396254, 1395160, 1393490,
       1391099, 1387790, 1383293, 1377254, 1369198, 1358528, 1344522, 1326381, 1303348, 1274912, 1241848, 1206064, 1168850, 1131054, 1093260, 1055860,
       1019193, 984224, 951125, 919778, 890076, 861923, 835223, 809896, 785859, 763041, 741374, 720793, 701237, 682652, 664985, 648188,
       632214, 617021, 602568, 588819, 575739, 563326, 551595, 540554, 530204, 520539, 511546, 503204, 495484, 488351, 481757, 475650,
       469967, 464639, 459592, 454749, 450033, 445368, 440684, 435921, 431027, 425964, 420704, 415487, 410485, 405687, 401084, 396671,
       392440, 388386, 384501, 380782, 377223, 373818, 370562, 367450, 364478, 361641, 358935, 356356, 353898, 351559, 349335, 347223,
       345233, 343435, 341917, 340762, 340055, 339881, 340328, 341481, 343433, 346272, 350099, 355039, 361377, 369660, 380084, 392359,
       406095, 420857, 436253, 451974, 467818, 483669, 499477, 515242, 530990, 546767, 562629, 578633, 594845, 611328, 628147, 645365,
       663047, 681260, 700069, 719546, 739755, 760773, 782663, 805498, 829342, 854261, 880305, 907449, 935402, 963572, 991506, 1018813,
       1045146, 1070243, 1093917, 1116063, 1136632, 1155627, 1173086, 1189068, 1203645, 1216890, 1228873, 1239660, 1249313, 1257875, 1265387, 1271879,
       1277382, 1281936, 1285655, 1288694, 1291145, 1293067, 1294510, 1295480, 1295975, 1295961, 1295400, 1294224, 1292345, 1289663, 1286060, 1281424,
       1275647, 1268639, 1260360, 1250962, 1240711, 1229774, 1218269, 1206248, 1193634, 1180476, 1166834, 1152770, 1138318, 1123537, 1108483, 1093182,
       1077685, 1062030, 1046258, 1030405, 1014503, 998589, 982690, 966838, 951050, 935343, 919726, 904203, 888771, 873437, 858176, 842976,
       827821, 812683, 797535, 782372, 767371, 752620, 738137, 723917, 709983, 696332, 682979, 669918, 657163, 644713, 632567, 620741,
       609220, 598007, 587110, 576519, 566237, 556256, 546581, 537203, 528120, 519328, 510818, 502596, 494655, 486961, 479502, 472243,
       465161, 458236, 451441, 444782, 438346, 432248, 426613, 421612, 417434, 414326, 412615, 412740, 415325, 421259, 431895, 449418,
       476559, 513293, 551104, 586775, 618499, 646035, 671122, 695659, 721543, 750413, 783598, 822159, 866943, 918580, 968330, 1011428,
       1048948, 1081787, 1110673, 1136198, 1158854, 1179050, 1197121, 1213353, 1227987, 1241226, 1253241, 1264180, 1274169, 1283318, 1291716, 1299450,
       1306591, 1313194, 1319320, 1325012, 1330314, 1335259, 1339881, 1344206, 1348258, 1352054, 1355621, 1358967, 1362107, 1365055, 1367819, 1370407,
       1372826, 1375083, 1377183, 1379125, 1380915, 1382558, 1384052, 1385397, 1386589, 1387629, 1388509, 1389227, 1389778, 1390156, 1390350, 1390358,
       1390170, 1389779, 1389170, 1388349, 1387311, 1386053, 1384574, 1382884, 1380991, 1378912, 1376663, 1374269, 1371749, 1369130, 1366441, 1363705,
       1360945, 1358179, 1355419, 1352668, 1349924, 1347178, 1344402, 1341562, 1338608, 1335480, 1332094, 1328345, 1324097, 1319174, 1313358, 1306363,
       1297833, 1287327, 1274318, 1258205, 1238375, 1214377, 1186797, 1156640, 1124701, 1091625, 1057930, 1024022, 990309, 957918, 927074, 897713,
       869773, 843186, 817887, 793815, 770910, 749110, 728362, 708613, 689811, 671910, 654865, 638632, 623170, 608442, 594410, 581036,
       568292, 556146, 544569, 533533, 523010, 512981, 503489, 494620, 486459, 479092, 472613, 467125, 462755, 459652, 458004, 458054,
       460123, 464649, 472246, 483713, 499255, 518479, 540842, 565690, 592351, 620195, 648682, 677368, 705909, 734047, 761592, 788411,
       814415, 839546, 863766, 887060, 909427, 930869, 951401, 971042, 989815, 1007748, 1024872, 1041217, 1056818, 1071711, 1085930, 1099512,
       1112495, 1124907, 1136777, 1148128, 1158975, 1169327, 1179175, 1188496, 1197256, 1205394, 1212830, 1219456, 1225166, 1229889, 1233811, 1237174,
       1240124, 1242760, 1245150, 1247348, 1249394, 1251318, 1253142, 1254885, 1256565, 1258197, 1259786, 1261379, 1263019, 1264690, 1266406, 1268161,
       1269954, 1271787, 1273657, 1275563, 1277502, 1279475, 1281477, 1283514, 1285580, 1287671, 1289785, 1291924, 1294077, 1296244, 1298425, 1300618,
       1302823, 1305032, 1307243, 1309470, 1311694, 1313911, 1316108, 1318284, 1320412, 1322479, 1324466, 1326347, 1328090, 1329640, 1330965, 1331962,
       1332558, 1332609, 1331953, 1330359, 1327506, 1322993, 1316267, 1306682, 1293530, 1276159, 1254719, 1230417, 1204204, 1176733, 1148440, 1119651,
       1091172, 1063447, 1036431, 1010095, 984429, 959386, 934929, 911028, 887664, 864809, 842441, 820531, 799073, 778046, 757447, 737267,
       717489, 698118, 679156, 660609, 642479, 624782, 607524, 590743, 574513, 558986, 544270, 530504, 517816, 506341, 496201, 487515,
       480397, 474934, 471206, 469245, 469065, 470629, 473851, 478594, 484672, 491848, 499847, 508362, 517074, 525636, 533734, 541126,
       547638, 553182, 557727, 561286, 563880, 565572, 566438, 566581, 566086, 565058, 563586, 561754, 559645, 557341, 554919, 552445,
       550011, 547689, 545566, 543748, 542361, 541552, 541514, 542505, 544859, 549060, 555720, 565213, 577788, 593596, 612620, 634675,
       659418, 686416, 715196, 745301, 776304, 807861, 839675, 871495, 903147, 934472, 965335, 995627, 1025247, 1054097, 1082105, 1109200,
       1135335, 1160444, 1184436, 1207090, 1228082, 1247273, 1264663, 1280308, 1294329, 1306839, 1317977, 1327881, 1336682, 1344503, 1351455, 1357643,
       1363145, 1368043, 1372399, 1376274, 1379721, 1382781, 1385483, 1387866, 1389950, 1391760, 1393305, 1394593, 1395627, 1396399, 1396899, 1397103,
       1396982, 1396492, 1395555, 1394085, 1391942, 1388953, 1384869, 1379370, 1372018, 1362256, 1349397, 1332661, 1311260, 1284570, 1252761, 1217677,
       1180810, 1143129, 1105286, 1067726, 1030760, 995172, 961488, 929594, 899378, 870741, 843588, 817832, 793392, 770193, 748166, 727244,
       707366, 688477, 670522, 653452, 637220, 621783, 607099, 593129, 579837, 567210, 555261, 543999, 533428, 523546, 514340, 505793,
       497880, 490564, 483804, 477549, 471738, 466305, 461177, 456277, 451528, 446854, 442183, 437450, 432603, 427598, 422403, 417127,
       412057, 407194, 402531, 398058, 393770, 389659, 385721, 381950, 378340, 374887, 371584, 368427, 365411, 362532, 359784, 357165,
       354669, 352293, 350032, 347885, 345851, 343983, 342366, 341086, 340227, 339873, 340112, 341031, 342717, 345263, 348764, 353331,
       359173, 366777, 376544, 388268, 401585, 416066, 431298, 446942, 462763, 478619, 494443, 510221, 525970, 541732, 557560, 573512,
       589652, 606043, 622747, 639828, 657354, 675388, 694001, 713256, 733222, 753972, 775573, 798098, 821611, 846175, 871855, 898666,
       926414, 954576, 982631, 1010176, 1036852, 1062368, 1086509, 1109151, 1130225, 1149721, 1167668, 1184114, 1199134, 1212797, 1225174, 1236336,
       1246343, 1255247, 1263092, 1269902, 1275716, 1280563, 1284528, 1287769, 1290398, 1292490, 1294083, 1295202, 1295851, 1296005, 1295628, 1294658,
       1293018, 1290605, 1287308, 1283016, 1277614, 1271004, 1263124, 1254049, 1244045, 1233311, 1221982, 1210132, 1197703, 1184711, 1171214, 1157281,
       1142944, 1128267, 1113293, 1098064, 1082621, 1067010, 1051268, 1035432, 1019546, 1003640, 987732, 971862, 956049, 940309, 924662, 909109,
       893658, 878298, 863019, 847798, 832627, 817472, 802333, 787170, 772092, 757261, 742698, 728404, 714377, 700635, 687183, 674035,
       661185, 648640, 636394, 624454, 612838, 601530, 590530, 579845, 569467, 559394, 549621, 540148, 530972, 522086, 513487, 505175,
       497132, 489358, 481829, 474511, 467376, 460402, 453571, 446873, 440351, 434134, 428339, 423115, 418649, 415164, 412971, 412454,
       414175, 418920, 427867, 442889, 466769, 501014, 539183, 575719, 608882, 637581, 663251, 687750, 713013, 740768, 772453, 809203,
       851921, 901376, 953220, 998306, 1037503, 1071750, 1101827, 1128364, 1151890, 1172832, 1191546, 1208342, 1223469, 1237134, 1249523, 1260791,
       1271071, 1280478, 1289109, 1297048, 1304370, 1311138, 1317412, 1323240, 1328661, 1333715, 1338436, 1342853, 1346985, 1350864, 1354503, 1357917,
       1361122, 1364129, 1366947, 1369589, 1372061, 1374368, 1376515, 1378507, 1380350, 1382041, 1383582, 1384972, 1386211, 1387299, 1388232, 1389005,
       1389609, 1390042, 1390295, 1390364, 1390235, 1389906, 1389370, 1388620, 1387648, 1386457, 1385048, 1383425, 1381598, 1379577, 1377380, 1375028,
       1372545, 1369956, 1367288, 1364566, 1361813, 1359048, 1356288, 1353535, 1350791, 1348044, 1345278, 1342464, 1339553, 1336489, 1333196, 1329576,
       1325502, 1320816, 1315312, 1308729, 1300734, 1290913, 1278765, 1263708, 1245125, 1222464, 1195906, 1166476, 1135029, 1102256, 1068709, 1040485,
       1006596, 973442, 941854, 911782, 883161, 855926, 830010, 805349, 781884, 759555, 738303, 718075, 698820, 680489, 663034, 646411,
       630579, 615499, 601133, 587445, 574399, 561967, 550117, 538821, 528052, 517784, 508021, 498839, 490325, 482562, 475640, 469657,
       464727, 460988, 458607, 457799, 458842, 462113, 468128, 477621, 491225, 508720, 529637, 553363, 579227, 606570, 634806, 663445,
       692093, 720454, 748306, 775491, 801900, 827460, 852125, 875870, 898687, 920576, 941548, 961619, 980809, 999147, 1016659, 1033378,
       1049335, 1064566, 1079108, 1092997, 1106267, 1118952, 1131083, 1142683, 1153773, 1164365, 1174459, 1184039, 1193079, 1201529, 1209316, 1216348,
       1222517, 1227716, 1231989, 1235602, 1238738, 1241516, 1244018, 1246306, 1248420, 1250399, 1252270, 1254051, 1255759, 1257411, 1259021, 1260606,
       1262224, 1263881, 1265578, 1267315, 1269091, 1270904, 1272757, 1274647, 1276576, 1278533, 1280524, 1282542, 1284590, 1286668, 1288776, 1290904,
       1293045, 1295205, 1297377, 1299566, 1301762, 1303969, 1306182, 1308400, 1310625, 1312839, 1315046, 1317226, 1319373, 1321478, 1323523, 1325463,
       1327272, 1328915, 1330344, 1331502, 1332308, 1332637, 1332351, 1331245, 1329052, 1325406, 1319830, 1311728, 1300405, 1285143, 1265547, 1242485,
       1217109, 1190183, 1162239, 1133653, 1104877, 1076788, 1049445, 1022788, 996806, 971469, 946731, 922568, 898950, 875855, 853250, 831123,
       809448, 788205, 767398, 747001, 727022, 707454, 688300, 669557, 651225, 633318, 615854, 598836, 582325, 566440, 551309, 537068,
       523841, 511763, 500958, 491550, 483657, 477382, 472804, 469984, 468943, 469665, 472093, 476121, 481578, 488256, 495889, 504192,
       512851, 521527, 529885, 537642, 544597, 550620, 555652, 559689, 562745, 564862, 566119, 566600, 566403, 565623, 564353, 562683,
       560700, 558483, 556105, 553650, 551186, 548798, 546567, 544589, 542976, 541863, 541424, 541878, 543519, 546759, 552156, 560240,
       571294, 585522, 602994, 623609, 647097, 673062, 701038, 730554, 761169, 792494, 824219, 856063, 887824, 919324, 950430, 981015,
       1010969, 1040206, 1068637, 1096176, 1122779, 1148382, 1172929, 1196272, 1218097, 1238169, 1256431, 1272920, 1287719, 1300950, 1312743, 1323230,
       1332555, 1340836, 1348197, 1354743, 1360569, 1365750, 1370359, 1374460, 1378110, 1381352, 1384224, 1386761, 1388989, 1390930, 1392601, 1394011,
       1395170, 1396068, 1396701, 1397054, 1397093, 1396790, 1396078, 1394880, 1393083, 1390529, 1387012, 1382247, 1375852, 1367338, 1356076, 1341322,
       1322278, 1298212, 1268729, 1234999, 1198852, 1161466, 1123634, 1085889, 1048602, 1012186, 977592, 944844, 913827, 884435, 856572, 830149 >>,
     H_sag |-> <<
       300001, 300003, 300000, 300002, 300000, 299999, 299998, 299998, 299997, 299998, 299998, 300000, 300000, 300000, 300000, 300000,
       299997, 300001, 299997, 299994, 299996, 299995, 299992, 299994, 299993, 299993, 299993, 299992, 299996, 299994, 299995, 299995,
       299992, 299989, 299988, 299988, 299986, 299986, 299986, 299986, 299984, 299983, 299982, 299985, 299984, 299987, 299989, 299989,
       299988, 299990, 299990, 299991, 299987, 299979, 299983, 299983, 299984, 299982, 299990, 299990, 299990, 299994, 299992, 299992,
       299994, 299996, 299996, 299997, 299997, 300000, 300002, 299999, 299999, 299998, 299999, 299997, 299998, 299998, 299998, 299999,
       299999, 299998, 299997, 299996, 299995, 299996, 299995, 300001, 299999, 299999, 299998, 299993, 299993, 299995, 299994, 299995,
       299992, 299991, 299990, 299991, 299993, 299994, 299998, 300000, 299998, 299997, 299998, 299999, 299998, 300002, 300002, 300004,
       300004, 299998, 300003, 300001, 299999, 300000, 300000, 299999, 300002, 299998, 300002, 300001, 300001, 299999, 299999, 300000,
       300000, 299999, 300000, 300000, 300000, 299998, 299999, 299999, 299999, 299998, 299999, 299999, 300000, 300001, 300001, 300001,
       300001, 300000, 300000, 300000, 299999, 300000, 299999, 299999, 299999, 299999, 299999, 299999, 299999, 299999, 299998, 299999,
       300000, 300000, 300000, 299999, 299999, 299999, 300000, 299999, 299999, 299999, 300000, 300000, 299999, 299998, 299998, 299998,
       299998, 299997, 299998, 299998, 299998, 299999, 299997, 299997, 299997, 299997, 299997, 299998, 299998, 299997, 299998, 299998,
       299998, 299998, 299998, 299998, 299999, 299999, 299998, 299998, 299998, 299999, 299999, 299999, 299999, 300000, 300000, 300000,
       300000, 299999, 299999, 299998, 299999, 299999, 299999, 299999, 299999, 299999, 299998, 299998, 300000, 300001, 300001, 300001,
       300002, 300002, 300001, 300002, 300002, 300002, 300002, 300002, 300002, 300001, 300000, 300000, 299999, 299998, 299998, 299998,
       299998, 299998, 299998, 299999, 299999, 299999, 299999, 300000, 300000, 300000, 300000, 299999, 299999, 299998, 299999, 299999,
       299999, 299999, 300000, 300000, 300000, 300000, 300000, 300000, 300001, 300000, 300001, 300001, 300000, 299999, 300001, 300002,
       300002, 300001, 300001, 300001, 300002, 300003, 300002, 300002, 300002, 300004, 300004, 300002, 300003, 300002, 300002, 300003,
       300004, 300004, 300003, 300004, 300003, 300002, 300003, 300003, 300002, 300002, 300001, 300000, 300000, 300001, 300002, 300002,
       300003, 300003, 300002, 300002, 300002, 300002, 300003, 300004, 300003, 300003, 300004, 300005, 300005, 300006, 300009, 300009,
       300009, 300009, 300009, 300009, 300010, 300010, 300010, 300010, 300010, 300010, 300010, 300010, 300008, 300012, 300011, 300010,
       300011, 300011, 300011, 300011, 300013, 300012, 300013, 300014, 300015, 300013, 300011, 300011, 300008, 300009, 300011, 300009,
       300009, 300010, 300011, 300012, 300013, 300013, 300013, 300010, 300010, 300011, 300010, 300016, 300018, 300013, 300011, 300013,
       300013, 300010, 300011, 300008, 300007, 300005, 300006, 300006, 300004, 300001, 299998, 300003, 300006, 300006, 300006, 299998,
       299995, 299996, 299993, 299989, 299991, 299992, 299991, 299993, 299998, 299997, 299991, 299985, 299987, 299992, 299991, 299995,
       299994, 299997, 300000, 300003, 300001, 299998, 299997, 299996, 299997, 299999, 299996, 299995, 299996, 299996, 299997, 299997,
       299995, 299995, 299995, 299996, 299997, 299997, 299996, 299997, 299996, 299996, 299996, 299996, 299998, 300000, 299999, 299999,
       300001, 300001, 300001, 300001, 300001, 300001, 300001, 300001, 300000, 300000, 300000, 300000, 300000, 300000, 300000, 300000,
       300000, 300001, 300001, 300000, 300000, 300000, 300001, 300001, 300001, 300001, 300000, 300000, 300000, 300000, 300000, 300001,
       300001, 300001, 300001, 300001, 300001, 300001, 300001, 300001, 300000, 300001, 300001, 300001, 300001, 300001, 300002, 300001,
       300001, 300001, 300000, 300000, 300001, 300001, 300001, 300001, 300001, 300001, 300000, 300001, 300001, 300000, 300000, 300000,
       300000, 300000, 300001, 300000, 300000, 299999, 299999, 300000, 300000, 299999, 299999, 300000, 299999, 299998, 299998, 299998,
       299999, 299999, 299999, 299999, 299999, 300000, 300000, 299999, 299999, 299999, 299999, 299999, 300000, 300000, 300001, 300000,
       300000, 300000, 300000, 300000, 300000, 299999, 299999, 299999, 299999, 299999, 300000, 300000, 300000, 300000, 300000, 300000,
       300000, 300000, 300000, 300000, 300000, 300000, 300001, 300000, 300001, 300002, 300003, 300003, 300002, 300003, 300003, 300002,
       300002, 300003, 300003, 300002, 300003, 300002, 300002, 300002, 300002, 300002, 300002, 300002, 300002, 300002, 300003, 300001,
       300002, 300002, 300002, 300003, 300002, 300002, 300002, 300001, 300001, 300001, 300002, 300001, 300000, 300000, 300000, 300000,
       300000, 300000, 299999, 299999, 299999, 299999, 299999, 299999, 299999, 299999, 299999, 299998, 299997, 299996, 299995, 299995,
       299995, 299994, 299995, 299995, 299994, 299993, 299993, 299992, 299992, 299990, 299991, 299991, 299990, 299988, 299987, 299989,
       299990, 299989, 299989, 299990, 299993, 299992, 299992, 299992, 299992, 299989, 299988, 299990, 299990, 299991, 299993, 299991,
       299992, 299991, 299994, 299994, 299993, 299994, 299991, 299986, 299987, 299983, 299988, 299989, 299988, 299988, 299988, 299988,
       299988, 299987, 299987, 299983, 299983, 299979, 299975, 299973, 299973, 299977, 299978, 299979, 299984, 299981, 299984, 299989,
       299989, 299988, 299983, 299985, 299986, 299982, 299980, 299984, 299984, 299997, 300001, 300001, 300001, 300000, 300003, 300004,
       300006, 300005, 300005, 300008, 300008, 300009, 300009, 300007, 300006, 300006, 300007, 300006, 300006, 300005, 300005, 300005,
       300003, 300001, 299999, 299999, 299998, 300002, 300001, 300003, 300001, 300002, 300003, 300001, 300003, 300002, 300001, 299996,
       299995, 299994, 299994, 299993, 299999, 300000, 300001, 300001, 299999, 299997, 299995, 299997, 299997, 299999, 299999, 300000,
       299999, 299996, 299995, 299994, 299992, 299999, 300001, 299998, 299993, 299995, 299992, 299994, 299995, 299994, 299991, 299992,
       299991, 299994, 299995, 299997, 300000, 300002, 300000, 299998, 299999, 300000, 300000, 299999, 299997, 299997, 299997, 299999,
       299998, 299998, 299997, 299996, 299996, 299996, 299996, 299997, 299998, 299999, 300000, 300000, 300000, 300001, 300001, 300000,
       299999, 299999, 299999, 299999, 299998, 299999, 299998, 299998, 299999, 299998, 299999, 300001, 300001, 300000, 300000, 300000,
       300000, 300000, 300000, 300001, 300001, 300001, 300002, 300001, 300002, 300002, 300001, 300001, 300000, 300000, 300000, 300000,
       300000, 300000, 300000, 300000, 299999, 299999, 299999, 300000, 300000, 300000, 300001, 300000, 300000, 300000, 300000, 300001,
       300001, 300001, 300001, 300001, 300001, 300001, 300001, 300001, 300000, 300001, 300000, 300000, 300000, 299999, 300000, 300000,
       300001, 300002, 300002, 300002, 300002, 300002, 300001, 300001, 300001, 300002, 300002, 300002, 300002, 300002, 300000, 300001,
       300001, 300001, 300002, 300002, 300002, 300002, 300001, 300001, 300001, 299999, 299999, 299998, 299998, 299997, 299997, 299997,
       299997, 299997, 299997, 299996, 299997, 299997, 299997, 299997, 299996, 299997, 299997, 299996, 299997, 299998, 299997, 299997,
       299997, 299998, 299998, 299997, 299996, 299995, 299996, 299995, 299995, 299995, 299996, 299995, 299995, 299993, 299994, 299994,
       299993, 299992, 299992, 299991, 299994, 299994, 299993, 299993, 299995, 299996, 299996, 299996, 299998, 300000, 299998, 299997,
       299997, 299997, 299999, 299998, 299998, 299996, 299997, 299996, 299996, 299997, 299997, 299996, 299995, 299995, 299995, 299997,
       299998, 299998, 300000, 300001, 300001, 299999, 299998, 299998, 299997, 299997, 299998, 299997, 299997, 299997, 299997, 299998,
       299999, 299999, 300001, 300000, 300000, 300000, 299999, 299997, 299999, 300001, 300001, 300001, 300001, 300000, 300002, 300002,
       300003, 300004, 300001, 300002, 300001, 299999, 299999, 299998, 299998, 300000, 300001, 300006, 300003, 300004, 300002, 300010,
       300016, 300014, 300014, 300010, 300008, 300008, 300005, 300006, 300007, 300008, 300008, 300005, 300003, 299998, 299993, 299995,
       299996, 299996, 299994, 299994, 299997, 299998, 299997, 299997, 299991, 299991, 299991, 299988, 299989, 299989, 299996, 299991,
       299992, 299999, 299998, 299999, 299994, 299991, 299990, 299991, 299993, 299992, 299992, 299992, 299995, 299994, 299994, 299994,
       299995, 299996, 299998, 299997, 299999, 299998, 300000, 299999, 300000, 300000, 299999, 300000, 300001, 300000, 300000, 300001,
       300000, 300001, 300001, 300001, 300001, 300000, 300000, 300001, 300001, 300001, 300001, 300002, 300001, 300001, 300000, 300000,
       300001, 300001, 300002, 300002, 300002, 300002, 300002, 300001, 300001, 300001, 300001, 300000, 300000, 300000, 300001, 300000,
       300001, 300000, 300001, 300001, 300001, 300000, 300000, 300000, 300000, 300000, 300000, 299999, 299999, 300000, 300000, 300000,
       300000, 299999, 299999, 300000, 300000, 299999, 300000, 300000, 300000, 299999, 299999, 300000, 300000, 300000, 299999, 300000,
       300000, 299999, 299999, 299999, 299998, 299998, 299999, 299999, 299998, 299999, 299998, 299998, 299999, 299999, 300000, 300000,
       300000, 299999, 299998, 299999, 299998, 299999, 299998, 299998, 299999, 299998, 299999, 299999, 299999, 299998, 299999, 299999,
       299998, 299998, 299998, 299999, 299999, 299999, 300000, 300000, 299999, 299999, 299999, 299999, 299999, 299999, 300000, 300000,
       300000, 300000, 300000, 299999, 299999, 299999, 299999, 299999, 299999, 299999, 299999, 299999, 299999, 300000, 300001, 300002,
       300001, 300002, 300001, 300002, 300001, 300002, 300002, 300001, 300001, 300001, 300001, 300001, 300001, 300001, 300001, 300001,
       300001, 300001, 300002, 300002, 300002, 300002, 300002, 300002, 300001, 300001, 300002, 300002, 300002, 300002, 300002, 300002,
       300001, 300002, 300003, 300002, 300002, 300003, 300003, 300003, 300002, 300002, 300001, 300002, 300002, 300001, 300000, 300002,
       300002, 300002, 300003, 300004, 300004, 300003, 300005, 300005, 300007, 300008, 300009, 300008, 300008, 300010, 300009, 300008,
       300007, 300008, 300011, 300011, 300011, 300010, 300008, 300009, 300010, 300009, 300009, 300009, 300008, 300009, 300015, 300016,
       300013, 300010, 300009, 300005, 300003, 300005, 300003, 300003, 300003, 300000, 300001, 299996, 299993, 299994, 299994, 299994,
       299995, 299994, 299994, 299990, 299991, 299993, 299994, 299992, 299990, 299988, 299984, 299977, 299983, 299983, 299981, 299982,
       299983, 299984, 299982, 299979, 299978, 299976, 299973, 299977, 299977, 299976, 299979, 299980, 299982, 299985, 299989, 299990,
       299989, 299990, 299991, 299990, 299990, 299991, 299992, 299995, 299995, 299993, 299991, 299996, 299997, 300000, 299996, 299999,
       299998, 299998, 299999, 299997, 300001, 300001, 300002, 300006, 300006, 300005, 300005, 300004, 300004, 300005, 300005, 300003,
       300001, 300002, 299998, 299997, 299995, 299997, 300000, 300000, 300004, 300009, 300008, 300006, 300006, 300007, 300004, 300002,
       299999, 300000, 300000, 299999, 299998, 300000, 299998, 299998, 300000, 299998, 299998, 299997, 300000, 300000, 300003, 300004,
       300003, 300004, 300007, 300004, 300004, 300004, 300002, 300004, 300005, 300006, 300006, 300006, 300006, 300006, 300005, 300006,
       300005, 300004, 300005, 300005, 300005, 300006, 300004, 300003, 300002, 300002, 300002, 300001, 300002, 300001, 300000, 300001,
       300001, 300001, 300000, 300000, 299999, 299999, 299999, 299999, 299999, 299998, 299999, 299999, 300000, 300000, 300000, 300000,
       300000, 300000, 300001, 300000, 300000, 300000, 300001, 300001, 300001, 300001, 300000, 300000, 300000, 300000, 299999, 300000 >>]

\* The simulator after 9960 steps.

EstadoTardio ==
    [params    |-> crear_parametros_default,
     semilla   |-> 0,
     sorteos   |-> 19831,
     estado    |-> [t |-> 9960, M_sag |-> 820567, W_sag |-> 351671, M_cu_sag |-> 6776891, F_actual |-> 396546, L_actual |-> 300000, H_sag |-> 300000],
     objetivos |-> [F_target |-> 200000, L_target |-> 720000],
     buffer_F  |-> BufferFTardio,
     buffer_t  |-> BufferTTardio,
     historial |-> HistorialTardio]

\* The dict step 9960 returned.

RetornoTardio ==
    Retorno("paso_simulacion", "none",
            [tiempo |-> 9960, M_sag |-> 820567, W_sag |-> 351671, M_cu_sag |-> 6776891, F_chancado |-> 396546, L_chancado |-> 300000, F_finos |-> 366326, F_sobre_tamano |-> 43706, F_alimentacion_total |-> 440252, F_descarga |-> 410032, L_sag |-> 830149, H_sag |-> 300000],
            "copia", "copia")

\* Calls of paso_simulacion made in a run that starts from the late state.
MaxPasosTardio == 10040

\* Numbers of steps taken at which the caller updates a target or resets.
MomentosTardios == {10005}

InitTardio ==
    /\ Es(EstadoTardio)
    /\ ret = RetornoTardio
    /\ reloj = EstadoTardio.estado.t
    /\ session_state = SesionNueva(0)

PasoTardio == PasoHasta(MaxPasosTardio)

ActualizarObjetivoTardio == ActualizarObjetivoEn(MomentosTardios)

ResetTardio == ResetEn(MomentosTardios)

NextTardio ==
    \/ PasoTardio
    \/ ActualizarObjetivoTardio
    \/ ResetTardio

SpecTardio == InitTardio /\ [][NextTardio]_vars


(***************************************************************************)
(* The dashboard driven by its user and by the reruns of the script.       *)
(***************************************************************************)
\* simular_paso calls explored by SpecTablero.
MaxPasosTablero == 130

\* Numbers of steps taken at which the user presses Iniciar or moves a slider;
\* Pausar and Reiniciar are pressed at any time.
MomentosTablero == {0, 60}

\* Positions the user moves a slider to: Flujo (t/h), Ley (%), Constante
\* descarga (k).
ValoresSlider ==
    [F_target |-> {350000, 50000}, L_target |-> {1000000}, k_descarga |-> {1000}]

\* The script runs for the first time: nothing is simulated yet.
InitTablero ==
    /\ Es(SimuladorSAG(crear_parametros_default, 0))
    /\ \E s \in Semillas : session_state = SesionNueva(s)
    /\ ret = Retorno("script", "none", << >>, "copia", "copia")
    /\ reloj = 0

\* The test of the block "EJECUTAR SIMULACION SI ESTA ACTIVA" without its outer
\* if: the step is due whenever the time test passes.
DebeSimularSiempre(ss, transcurrido) == ss.ultima_actualizacion = 0 \/ transcurrido

\* The test of the block "EJECUTAR SIMULACION SI ESTA ACTIVA": simulando
\* holds and either ultima_actualizacion is 0 or more than 0.1 s went by
\* (transcurrido).
DebeSimular(ss, transcurrido) ==
    ss.simulando /\ (ss.ultima_actualizacion = 0 \/ transcurrido)

\* One run of the script: simular_paso is called when the test of the block
\* passes, and the clock read is stored in ultima_actualizacion.
EjecutarScript ==
    \E transcurrido \in BOOLEAN :
       IF DebeSimular(session_state, transcurrido)
       THEN /\ reloj < MaxPasosTablero
            /\ session_state' =
                   [simular_paso(session_state) EXCEPT !.ultima_actualizacion = 1]
            /\ ret' = Retorno("simular_paso", "none", << >>, "copia", "copia")
            /\ reloj' = reloj + 1
            /\ UNCHANGED sim
       ELSE /\ ret' = Retorno("script", "none", << >>, "copia", "copia")
            /\ UNCHANGED <<sim, reloj, session_state>>

\* The button Iniciar, enabled while not simulando.
IniciarSimulacion ==
    /\ reloj \in MomentosTablero
    /\ ~session_state.simulando
    /\ \E s \in Semillas : session_state' = iniciar_simulacion(session_state, s)
    /\ ret' = Retorno("iniciar_simulacion", "none", << >>, "copia", "copia")
    /\ UNCHANGED <<sim, reloj>>

\* The button Pausar, enabled while simulando.
PausarSimulacion ==
    /\ session_state.simulando
    /\ session_state' = pausar_simulacion(session_state)
    /\ ret' = Retorno("pausar_simulacion", "none", << >>, "copia", "copia")
    /\ UNCHANGED <<sim, reloj>>

\* The button Reiniciar.
ReiniciarSimulacion ==
    /\ \E s \in Semillas : session_state' = reiniciar_simulacion(session_state, s)
    /\ ret' = Retorno("reiniciar_simulacion", "none", << >>, "copia", "copia")
    /\ UNCHANGED <<sim, reloj>>

\* A run of the script that reaches the sidebar after the user moved a
\* slider: the slider's value is assigned to objetivos or params.
AjustarSlider ==
    /\ reloj \in MomentosTablero
    /\ \E c \in DOMAIN ValoresSlider : \E v \in ValoresSlider[c] :
          session_state' =
              IF c = "k_descarga"
              THEN [session_state EXCEPT !.params.k_descarga = v]
              ELSE [session_state EXCEPT !.objetivos[c] = v]
    /\ ret' = Retorno("slider", "none", << >>, "copia", "copia")
    /\ UNCHANGED <<sim, reloj>>

NextTablero ==
    \/ EjecutarScript
    \/ IniciarSimulacion
    \/ PausarSimulacion
    \/ ReiniciarSimulacion
    \/ AjustarSlider

SpecTablero == InitTablero /\ [][NextTablero]_vars
(***************************************************************************)
(* Properties.                                                             *)
(***************************************************************************)
\* The last call was a paso_simulacion that returned its dict.
PasoCompletado == ret.op = "paso_simulacion" /\ ret.exc = "none"

\* C1: in every state reached by paso_simulacion, actualizar_objetivo and reset
\* calls the inventories respect their floors: M_sag >= 10 t, W_sag >= 1 t,
\* M_cu_sag >= 0.
C1_PisosInventarios ==
    /\ estado.M_sag >= 1000
    /\ estado.W_sag >= 100
    /\ estado.M_cu_sag >= 0

\* C1 witness: a step that began with discharge above the feed ended with the
\* solids exactly on their floor, after target updates or resets or neither.
C1_Testigo ==
    /\ PasoCompletado
    /\ ret.val.F_descarga > ret.val.F_alimentacion_total
    /\ estado.M_sag = 1000

\* Steps after which every transient of the default plant has died out many
\* times over (1/k_descarga = 2 h, tau_F = 1 h, tau_L = 1.5 h, delays <= 1.5 h).
PasosAsentamiento == 1000

\* The solids are within 1 % of F_alimentacion_total / k_descarga:
\* |M_sag - F/k| <= 0.01 * F/k, multiplied through by k_descarga.
EnBanda ==
    Abs(estado.M_sag * params.k_descarga - 1000 * ret.val.F_alimentacion_total)
        <= 10 * ret.val.F_alimentacion_total

\* C2: with constant targets and parameters, once the transients have settled
\* the solids mass stays within 1 % of (total solids in) / k_descarga.
C2_Equilibrio == (PasoCompletado /\ reloj >= PasosAsentamiento) => EnBanda

\* The time, in steps, at which the last completed step began (t is advanced
\* at the end of paso_simulacion and reported as 'tiempo').
TInicioPaso == ret.val.tiempo - 1

\* C3: while the recirculation delay has not yet elapsed (t < tau_recirculacion)
\* the recirculation flow of the step is exactly 0.
C3_SinRecirculacionAntesDelRetardo ==
    (/\ PasoCompletado
     /\ ParametrosEnRango(params)
     /\ 10 * TInicioPaso < params.tau_recirculacion)
        => ret.val.F_sobre_tamano = 0

\* The delay is a whole number of steps and, when the last completed step
\* began, the delay plus the 15 min ramp window had elapsed.
PasadoElRetardo ==
    /\ PasoCompletado
    /\ ParametrosEnRango(params)
    /\ params.tau_recirculacion % 10 = 0
    /\ 10 * TInicioPaso >= params.tau_recirculacion + 150

\* The positions of the delay buffer recorded tau_recirculacion before the
\* beginning of the last completed step.
MuestrasRetardadas ==
    {i \in DOMAIN buffer_t : 10 * buffer_t[i] = 10 * TInicioPaso - params.tau_recirculacion}

\* C4: once t >= tau_recirculacion + 15 min, the recirculation flow of a step
\* is fraccion_recirculacion times the crusher feed recorded tau_recirculacion
\* earlier, for delays that are a whole number of steps.
C4_RecirculacionRetardada ==
    PasadoElRetardo =>
        /\ MuestrasRetardadas # {}
        /\ \A i \in MuestrasRetardadas :
              ret.val.F_sobre_tamano
                  = MulDiv(params.fraccion_recirculacion, buffer_F[i], Ppm)

\* C4 witness: 90 min delay, a step at t >= 105 min whose delayed sample
\* differs from the feed of the step itself.
C4_Testigo ==
    /\ PasadoElRetardo
    /\ params.tau_recirculacion = 900
    /\ \E i \in MuestrasRetardadas : buffer_F[i] # ret.val.F_chancado
    /\ ret.val.F_sobre_tamano > 0

\* The query time t - delay of the last completed step, in tenths of a minute.
TQuery == 10 * TInicioPaso - params.tau_recirculacion

\* The buffer position the last completed step looked up (the buffers are
\* not touched between the lookup and the end of the step).
MuestraElegida == idx_min(buffer_t, TQuery)

\* C5: the delayed lookup is restricted to the past: the sample chosen for
\* t_query = t - delay was recorded at a time <= t_query and no later sample
\* recorded at a time <= t_query exists.
C5_BusquedaEnElPasado ==
    (/\ PasoCompletado
     /\ ParametrosEnRango(params)
     /\ TiempoPasadoPositivo(TInicioPaso, params.tau_recirculacion))
        => /\ 10 * buffer_t[MuestraElegida] <= TQuery
           /\ \A j \in DOMAIN buffer_t :
                 10 * buffer_t[j] <= TQuery => buffer_t[j] <= buffer_t[MuestraElegida]

\* C6: for every parameter set in range, zero recirculation and fines delays
\* included, every call of paso_simulacion completes and returns its dict.
C6_PasoNuncaFalla ==
    (ret.op = "paso_simulacion" /\ ParametrosEnRango(params)) => ret.exc = "none"

\* Steps after a reset over which the trajectory is compared with that of a
\* newly constructed simulator.
NPasosTrayectoria == 3

\* The simulator after k successful calls of paso_simulacion.
RECURSIVE Iterar(_, _)
Iterar(self, k) == IF k = 0 THEN self ELSE Iterar(paso_simulacion(self).self, k - 1)

\* The targets are the nominal ones: actualizar_objetivo has not changed them
\* since construction or the last reset.
ObjetivosNominales ==
    objetivos = [F_target |-> params.F_nominal, L_target |-> params.L_nominal]

\* More calls of paso_simulacion were made than the simulated time accounts
\* for, all of them successful: a reset lies between construction and now.
HuboReset == reloj > estado.t /\ params.tau_recirculacion # 0

\* C7: reset() leaves the simulator as a newly constructed one with the same
\* parameters and seed (t = 0, initial inventories, empty history, one-sample
\* delay buffer, nominal targets), and the steps that follow a reset produce
\* the state, history, buffers and targets that the same number of steps
\* produce from a newly constructed simulator.
C7_ResetComoNuevo ==
    /\ ret.op = "reset" =>
          /\ Self = SimuladorSAG(params, semilla)
          /\ estado.t = 0
          /\ estado.M_sag = 10000 /\ estado.W_sag = 4286 /\ estado.M_cu_sag = 72000
          /\ \A c \in ClavesHistorial : historial[c] = << >>
          /\ Len(buffer_F) = 1 /\ Len(buffer_t) = 1
          /\ ObjetivosNominales
    /\ (/\ PasoCompletado
        /\ HuboReset
        /\ ObjetivosNominales
        /\ estado.t <= NPasosTrayectoria)
          => Self = Iterar(SimuladorSAG(params, semilla), estado.t)

\* C7 witness: 40 steps and a reset later, with noise, the simulator has made
\* NPasosTrayectoria steps again.
C7_Testigo ==
    /\ PasoCompletado
    /\ HuboReset
    /\ ObjetivosNominales
    /\ reloj > 40
    /\ semilla = 1
    /\ estado.t = NPasosTrayectoria

\* The last call was actualizar_objetivo with a kind other than 'F' and 'L'.
TipoDesconocido(r) == r.op = "actualizar_objetivo" /\ r.val[1] \notin {"F", "L"}

\* C8: actualizar_objetivo with a kind other than 'F' or 'L' raises ValueError
\* and leaves targets, state, delay buffers and history as they were.
C8_TipoDesconocidoRechazado ==
    [][TipoDesconocido(ret') => (ret'.exc = "ValueError" /\ sim' = sim)]_vars

\* C8 witness: a call with kind 'X' was rejected after 40 steps, with a target
\* that an earlier call had changed.
C8_Testigo ==
    /\ TipoDesconocido(ret)
    /\ ret.exc = "ValueError"
    /\ reloj = 40
    /\ ~ObjetivosNominales

\* C9: a parameter set with k_descarga <= 0, a negative delay or a moisture
\* outside (0, 1) is rejected by the constructor: the construction ends with
\* an exception and no simulator holding such parameters completes a step.
C9_ParametrosInvalidosRechazados ==
    ~ParametrosEnRango(params) =>
        /\ ret.op = "__init__" => ret.exc # "none"
        /\ ~PasoCompletado

\* C10: obtener_estado and obtener_historial return copies: assigning a key of
\* the returned dict, or appending to or clearing a returned list, leaves the
\* simulator's estado and historial, and the rest of the simulator, unchanged.
C10_GettersDevuelvenCopias ==
    [][ret'.op \in {"mutar_estado", "mutar_historial"}
          => (estado' = estado /\ historial' = historial /\ sim' = sim)]_vars

\* C10 witness: after 40 steps the caller cleared a list of the returned
\* history and the simulator's own list still holds its points.
C10_Testigo ==
    /\ ret.op = "mutar_historial"
    /\ reloj = 40
    /\ ret.val["F_finos"] = << >>
    /\ historial["F_finos"] # << >>

\* The series s2 is the series s1 with one point appended, the oldest point
\* dropped when s1 already held 1440.
PuntoAgregado(s1, s2) ==
    /\ s2 # << >>
    /\ s2 = IF Len(s1) >= 1440
            THEN Append(Tail(s1), s2[Len(s2)])
            ELSE Append(s1, s2[Len(s2)])

\* All history series have one length, at most 1440, and the recorded times
\* increase strictly.
HistorialBienFormado ==
    /\ \A c \in ClavesHistorial : Len(historial[c]) = Len(historial["t"])
    /\ Len(historial["t"]) <= 1440
    /\ \A i \in 1..(Len(historial["t"]) - 1) : historial["t"][i] < historial["t"][i + 1]

\* C11: after any sequence of steps, target updates and resets all history
\* series have the same length, at most 1440 points, with strictly increasing
\* times; a step that records at the cap drops the oldest point first.
C11_HistorialAcotado ==
    /\ []HistorialBienFormado
    /\ [][(ret'.op = "paso_simulacion" /\ historial' # historial)
            => \A c \in ClavesHistorial : PuntoAgregado(historial[c], historial'[c])]_vars

\* C11 witness: the history is at its cap, points older than those of the
\* late state have been dropped, and the newest point was recorded after a
\* target update.
C11_Testigo ==
    /\ Len(historial["t"]) = 1440
    /\ historial["t"][1] > HistorialTardio["t"][1]
    /\ historial["F_target"][1440] # params.F_nominal

\* C12: after every paso_simulacion the crusher feed flow stored lies in
\* [500, 5000] t/h and the grade in [0.003, 0.015], whatever targets
\* actualizar_objetivo has set.
C12_AlimentacionAcotada ==
    ret.op = "paso_simulacion" =>
        /\ 50000 <= estado.F_actual /\ estado.F_actual <= 500000
        /\ 300000 <= estado.L_actual /\ estado.L_actual <= 1500000

\* C12 witness: with the flow target set to 12000 t/h, above the upper
\* bound, a step stored a flow on the bound.
C12_Testigo ==
    /\ PasoCompletado
    /\ objetivos.F_target > 500000
    /\ estado.F_actual = 500000

\* Everything of the simulator but its targets.
SinObjetivos == <<params, semilla, sorteos, estado, buffer_F, buffer_t, historial>>

\* C13: actualizar_objetivo('F', v) changes F_target to v and nothing else,
\* actualizar_objetivo('L', v) changes L_target to v and nothing else, and the
\* step that follows computes its feed from the targets as updated.
C13_SoloElObjetivo ==
    [][/\ (ret'.op = "actualizar_objetivo" /\ ret'.val[1] = "F")
            => /\ objetivos' = [objetivos EXCEPT !.F_target = ret'.val[2]]
               /\ SinObjetivos' = SinObjetivos
       /\ (ret'.op = "actualizar_objetivo" /\ ret'.val[1] = "L")
            => /\ objetivos' = [objetivos EXCEPT !.L_target = ret'.val[2]]
               /\ SinObjetivos' = SinObjetivos
       /\ (ret.op = "actualizar_objetivo" /\ ret.exc = "none"
           /\ ret'.op = "paso_simulacion" /\ ret'.exc = "none")
            => /\ objetivos[ret.val[1] \o "_target"] = ret.val[2]
               /\ objetivos' = objetivos
               /\ LET a == calcular_alimentacion_chancado(Self)
                  IN  /\ ret'.val.F_chancado = a.F_chancado
                      /\ ret'.val.L_chancado = a.L_chancado]_vars

\* C13 witness: after 40 steps the grade target was updated while the flow
\* target set by an earlier call stayed.
C13_Testigo ==
    /\ ret.op = "actualizar_objetivo"
    /\ ret.exc = "none"
    /\ ret.val[1] = "L"
    /\ reloj = 40
    /\ objetivos.L_target = ret.val[2]
    /\ objetivos.F_target = 10000

\* The flows and derivatives of the step just taken, recomputed from the state
\* it started in and the feed and oversize flows it returned.
BalanceDelPaso ==
    BalanceSAG(Self, ret'.val.F_chancado, ret'.val.L_chancado, ret'.val.F_sobre_tamano)

\* C14: each paso_simulacion integrates the inventories by explicit Euler:
\* M_sag' = max(10, M_sag + (F_alimentacion_total - k_descarga * M_sag) * dt),
\* and water and copper are their old value plus derivative * dt, floored at
\* 1 and 0.
C14_EulerExplicito ==
    [][(ret'.op = "paso_simulacion" /\ ret'.exc = "none" /\ ParametrosEnRango(params))
          => LET b == BalanceDelPaso
             IN  /\ estado'.M_sag = Max(1000, estado.M_sag + RDiv(b.dM_dt, 60))
                 /\ estado'.W_sag = Max(100, estado.W_sag + RDiv(b.dW_dt, 60))
                 /\ estado'.M_cu_sag = Max(0, estado.M_cu_sag + RDiv(b.dMcu_dt, 60))]_vars


\* The solids balance (F_alimentacion_total - F_descarga) of the dashboard
\* step just taken, in 0.01 t/h, from the mass it started with and the flows
\* it stored.
BalanceTablero ==
    session_state'.estado.F_chancado + session_state'.estado.F_sobre_tamano
    - FDescargaTablero(session_state.params.k_descarga, session_state.estado.M_sag)

\* C15: the dashboard's simular_paso rescales nothing: with flows in t/h and
\* dt = 1/60 h one step changes M_sag by (F_alimentacion_total - F_descarga)
\* * dt, that is by 100/60 units of 0.0001 t per unit of 0.01 t/h.
C15_SinReescalado ==
    [][ret'.op = "simular_paso"
          => session_state'.estado.M_sag
                 = Max(PisoMTablero,
                       session_state.estado.M_sag + RDiv(5 * BalanceTablero, 3))]_vars

\* C16: the discharge a step returns is k_descarga * M_sag of the mass the
\* step started with, and a step whose total feed equals that discharge
\* leaves M_sag as it was.
C16_DescargaLineal ==
    [][(ret'.op = "paso_simulacion" /\ ret'.exc = "none")
          => /\ ret'.val.F_descarga = MulDiv(params.k_descarga, estado.M_sag, 1000)
             /\ (ret'.val.F_chancado + ret'.val.F_sobre_tamano = ret'.val.F_descarga
                    => estado'.M_sag = estado.M_sag)]_vars

\* C16 witness: with k_descarga = 5/h a step fed the minimum 500 t/h
\* discharged 500 t/h from the 100 t it held and holds 100 t still.
C16_Testigo ==
    /\ PasoCompletado
    /\ ParametrosEnRango(params)
    /\ ret.val.F_chancado + ret.val.F_sobre_tamano = ret.val.F_descarga
    /\ ret.val.F_descarga = 50000
    /\ estado.M_sag = 10000

\* The same for the dashboard: simular_paso discharges k_descarga * M_sag of
\* the mass it starts with, and a step whose feed equals it leaves M_sag.
DescargaLinealTablero ==
    [][ret'.op = "simular_paso"
          => (BalanceTablero = 0
                => session_state'.estado.M_sag = session_state.estado.M_sag)]_vars

\* A dashboard step taken in balance: the feed clipped to a tenth of the
\* 500 t/h target, 100 t held at 0.5/h.
DescargaLinealTableroTestigo ==
    /\ ret.op = "simular_paso"
    /\ session_state.estado.M_sag = 1000000
    /\ session_state.estado.F_chancado + session_state.estado.F_sobre_tamano = 5000
    /\ session_state.params.k_descarga = 500

\* C17: with variability inactive (noise off, t before the variations start)
\* every step relaxes the feed toward its targets by first-order dynamics:
\* F = F_actual + (F_target - F_actual) / tau_F * dt with tau_F = 1.0 h and
\* L = L_actual + (L_target - L_actual) / tau_L * dt with tau_L = 1.5 h,
\* each clamped to the absolute bounds.
C17_PrimerOrden ==
    [][(/\ ret'.op = "paso_simulacion" /\ ret'.exc = "none"
        /\ ParametrosEnRango(params)
        /\ semilla = 0
        /\ ~VariacionFActiva(estado.t) /\ ~VariacionLActiva(estado.t))
          => /\ ret'.val.F_chancado
                  = Clip(estado.F_actual
                         + RDiv(objetivos.F_target - estado.F_actual, 60),
                         F_min, F_max)
             /\ ret'.val.L_chancado
                  = Clip(estado.L_actual
                         + RDiv(objetivos.L_target - estado.L_actual, 90),
                         L_min, L_max)]_vars

\* C18: in the state obtener_estado returns - after construction, after any
\* step, after reset - the moisture is derived from the same snapshot:
\* H_sag = W_sag / (M_sag + W_sag).
C18_HumedadDerivada ==
    LET e == obtener_estado(Self).val
    IN  e.H_sag = MulDiv(e.W_sag, Ppm, e.M_sag + e.W_sag)

\* C19: each paso_simulacion advances t by one dt, and it appends one entry to
\* every history series exactly when the step count after the advance is a
\* multiple of 6; every other step leaves the history as it was.
C19_Decimacion ==
    [][(ret'.op = "paso_simulacion" /\ ret'.exc = "none")
          => /\ estado'.t = estado.t + 1
             /\ IF estado'.t % Decimacion = 0
                THEN \A c \in ClavesHistorial :
                        /\ Len(historial'[c]) = Len(historial[c]) + 1
                        /\ SubSeq(historial'[c], 1, Len(historial[c])) = historial[c]
                ELSE historial' = historial]_vars

\* The delay-line buffers have one length, at most maxlen, and their times
\* never decrease.
BuffersBienFormados ==
    /\ Len(buffer_F) = Len(buffer_t)
    /\ Len(buffer_F) <= BufferMaxlen
    /\ \A i \in 1..(Len(buffer_t) - 1) : buffer_t[i] <= buffer_t[i + 1]

\* The two buffers after the pair <<F, t>> is recorded: the pair goes to the
\* same position of both, and when they are full the oldest pair leaves both.
ParRegistrado(bF, bt, F, t) ==
    IF Len(bF) >= BufferMaxlen
    THEN <<Append(Tail(bF), F), Append(Tail(bt), t)>>
    ELSE <<Append(bF, F), Append(bt, t)>>

\* C20: buffer_F and buffer_t always have the same length, never above 10000,
\* with non-decreasing times, and every step records its feed flow and its
\* time at the same position of both, evicting the oldest pair from both once
\* they are full, so that position i of buffer_F stays the flow recorded at
\* the time in position i of buffer_t.
C20_BuffersAlineados ==
    /\ []BuffersBienFormados
    /\ [][(ret'.op = "paso_simulacion" /\ ret'.exc = "none")
            => <<buffer_F', buffer_t'>>
                   = ParRegistrado(buffer_F, buffer_t, ret'.val.F_chancado, estado.t)]_vars

\* C20 witness: after more than 10000 steps the buffers are full and the
\* oldest samples are gone: the first time held is past the start.
C20_Testigo ==
    /\ PasoCompletado
    /\ Len(buffer_F) = BufferMaxlen
    /\ buffer_t[1] > 0
    /\ buffer_t[BufferMaxlen] = estado.t - 1
    /\ buffer_F[BufferMaxlen] = estado.F_actual

\* max(0, F_descarga - F_sobre_tamano) of the dict the last step returned.
BalanceFinos == Max(0, ret.val.F_descarga - ret.val.F_sobre_tamano)

\* The t the last step started with is neither below tau_finos nor in the
\* hour of transition after it: t >= tau_finos_horas + 1.0.
PasadaLaTransicion ==
    /\ ~AntesDeFinos(ret.val.tiempo - 1, params.tau_finos)
    /\ ~EnTransicionFinos(ret.val.tiempo - 1, params.tau_finos)

\* C21: the fines flow every step returns lies between 0 and
\* max(0, F_descarga - F_sobre_tamano) of the same step, and equals that
\* balance once the step's t is at least tau_finos + 1 h.
C21_FinosAcotados ==
    PasoCompletado
        => /\ 0 <= ret.val.F_finos
           /\ ret.val.F_finos <= BalanceFinos
           /\ PasadaLaTransicion => ret.val.F_finos = BalanceFinos

\* C21 witness: with tau_finos = 48 min a step that started after 1.8 h
\* returned a positive fines flow equal to the balance.
C21_Testigo ==
    /\ PasoCompletado
    /\ params.tau_finos = 480
    /\ PasadaLaTransicion
    /\ ret.val.tiempo - 1 >= 109
    /\ ret.val.F_finos > 0
    /\ ret.val.F_finos = BalanceFinos


\* The simulated state of the dashboard: estado and the history series.
EstadoSimulado == <<session_state.estado, session_state.historial>>

\* C22: the dashboard advances only in a script run where simulando holds:
\* simular_paso is called only then and moves tiempo by one step; the
\* simulated state changes in no other way than such a step or Reiniciar, so
\* it stays fixed while simulando is false; Pausar and Reiniciar leave
\* simulando false, and Reiniciar leaves tiempo = 0 and every series empty.
C22_AvanzaSoloSimulando ==
    [][/\ ret'.op = "simular_paso"
            => /\ session_state.simulando
               /\ session_state'.estado.tiempo = session_state.estado.tiempo + 1
       /\ EstadoSimulado' # EstadoSimulado
            => \/ ret'.op = "simular_paso" /\ session_state.simulando
               \/ ret'.op = "reiniciar_simulacion"
       /\ (~session_state.simulando /\ ret'.op # "reiniciar_simulacion")
            => EstadoSimulado' = EstadoSimulado
       /\ ret'.op = "pausar_simulacion"
            => ~session_state'.simulando /\ EstadoSimulado' = EstadoSimulado
       /\ ret'.op = "reiniciar_simulacion"
            => /\ ~session_state'.simulando
               /\ session_state'.estado.tiempo = 0
               /\ \A c \in ClavesHistorialTablero :
                     session_state'.historial[c] = << >>]_vars

\* C22 witness: after 60 steps, which recorded history, Reiniciar was pressed
\* and a later run of the script found simulando false: tiempo is 0 and
\* every series is empty.
C22_Testigo ==
    /\ ret.op = "script"
    /\ reloj = 60
    /\ ~session_state.simulando
    /\ session_state.estado.tiempo = 0
    /\ \A c \in ClavesHistorialTablero : session_state.historial[c] = << >>
====
